---------------------------- MODULE Spec2Model ----------------------------
(***************************************************************************)
(* NiFi observability backend: the NiFiClient of                           *)
(* backend/app/services/nifi_client.py and the endpoints of                *)
(* backend/app/main.py that call it.                                       *)
(*                                                                         *)
(* Spec      the provenance query orchestrator (get_provenance_events):    *)
(*           submit, poll, cleanup, one invocation at a time.              *)
(* LiveSpec  Spec with weak fairness: every awaited upstream call ends     *)
(*           (the transport has a request timeout).                        *)
(* HierSpec  the hierarchy walker (get_process_group_hierarchy): one walk  *)
(*           over an upstream topology, step by step; HierLiveSpec adds    *)
(*           weak fairness.                                                *)
(* ApiSpec   two concurrent requests to the endpoints of main.py, served   *)
(*           by the one shared NiFiClient and its cached token.            *)
(* ConcSpec  two concurrent invocations of get_provenance_events on the    *)
(*           shared client, interleaved at their awaits.                   *)
(* FanSpec   the hierarchy walker again, over data with more children per  *)
(*           group, keeping only the number of requests per depth.         *)
(*                                                                         *)
(* Upstream is the environment.  It answers every call with a transport    *)
(* failure, a non-2xx status, a body that is no JSON, or a 2xx JSON body   *)
(* whose keys may be absent but whose values have the types of the NiFi    *)
(* REST API; the elements of results.provenanceEvents, and the processor   *)
(* entries of a flow, alone may be any JSON value, since the client        *)
(* promises to survive bad records.                                        *)
(* A successful token exchange yields a non-empty token.                   *)
(***************************************************************************)
EXTENDS Integers, Sequences, FiniteSets, TLC

VARIABLES
    token,          \* NiFiClient.token: None or the cached bearer token
    pc,             \* where the invocation of get_provenance_events stands
    endpoint,       \* how it was invoked: "GET", "POST" or "direct"
    max_results,    \* the max_results argument the client method received
    query_id,       \* the local query_id (None until the submission gave one)
    poll_num,       \* polls issued so far (the loop index of the next poll)
    events,         \* the local events: validated and sorted
    total_count,    \* the local total_count
    after_delete,   \* what follows the running _delete_provenance_query
    error,          \* the exception being raised (None when none)
    calls,          \* the /provenance requests sent so far, in order
    created,        \* upstream: ids of the queries it created
    submit_resp,    \* upstream: its answer to the submission
    poll_resp,      \* upstream: its answer to the last poll
    delete_failed,  \* whether some DELETE of this invocation failed
    result,         \* what the client method returned or raised
    http_status,    \* the status the endpoint answered with (0: none yet)
    h_pc,           \* where the hierarchy walk stands: idle, walking, done
    h_depth,        \* the depth argument of the outermost call of the walk
    max_depth,      \* the max_depth argument of the walk
    stack,          \* the active calls of get_process_group_hierarchy,
                    \* outermost first: one frame of locals per call
    h_calls,        \* the process-group requests sent so far, in order
    h_failures,     \* upstream: the fetches it failed and the flows it
                    \* delivered with a broken entry, by position in the tree
    topology,       \* upstream: the flow of every group
    h_result,       \* what the outermost call returned or raised
    h_root,         \* how get_root_process_group_id ended (None: not called)
    reqs,           \* the inbound requests: per request, where its handler stands
    a_calls,        \* the requests the handlers sent upstream so far, in order
    issued,         \* upstream: the tokens it has issued
    inv,            \* concurrent get_provenance_events invocations: the
                    \* locals of each, and the ids it polled and deleted
    q_log,          \* upstream: the queries created, with their creators
    w_pc,           \* where the counted walk stands: idle, walking, done
    w_max_depth,    \* its max_depth argument
    w_topology,     \* upstream: the flow of every group, for the counted walk
    w_stack,        \* its active calls: group, depth, phase, child index
    w_calls         \* the requests it sent so far, counted per depth

\* the orchestrator's variables
pvars == <<pc, endpoint, max_results, query_id, poll_num, events, total_count,
           after_delete, error, calls, created, submit_resp, poll_resp,
           delete_failed, result, http_status>>

\* the walker's variables
hvars == <<h_pc, h_depth, max_depth, stack, h_calls, h_failures, topology, h_result,
           h_root>>

\* the variables of the inbound requests
avars == <<reqs, a_calls, issued>>

\* the variables of the concurrent provenance invocations
cvars == <<inv, q_log>>

\* the variables of the counted walk
wvars == <<w_pc, w_max_depth, w_topology, w_stack, w_calls>>

vars == <<token, pvars, hvars, avars, cvars, wvars>>

None == "None"

\* an optional JSON value: absent (or null), or present with a value
Absent == <<>>
Some(x) == <<x>>

-----------------------------------------------------------------------------
(* Bounds of the model and constants of the program *)

\* nifi_client.py:477 max_polls = 120
max_polls == 120

\* nifi_client.py:393 min(max_results, 1000); main.py:196
MaxResultsCap == 1000

Tokens == {"jwt"}
QueryIds == {"q1"}
ProcessorId == "proc-1"

Min(a, b) == IF a <= b THEN a ELSE b

\* (endpoint, max_results as the caller gave it)
Requests ==
    {<<"GET", 1>>, <<"GET", 1001>>, <<"GET", -1>>, <<"POST", 2>>, <<"direct", 1001>>}

-----------------------------------------------------------------------------
(* Upstream payloads *)

\* An event record as upstream delivers it: eventTime is a string in the
\* timestamp format of the NiFi REST API, MM/dd/yyyy HH:mm:ss.SSS z, modelled
\* by the sequence <<month, year>> of the ranks of its parts as they are
\* written; ok says whether the record has every required field of
\* ProvenanceEvent.
\* results.totalCount is an integer or absent; results.total is a string,
\* modelled by the sequence of its characters ("0".."9", "," and "x" for
\* anything else), or absent.  The "results" object of a provenance entity.
EventRecord(id, eventTime, ok) ==
    [id |-> id, eventTime |-> eventTime, ok |-> ok, object |-> TRUE]

\* an element of provenanceEvents that is no JSON object (null, a string)
NotAnObject == [id |-> "", eventTime |-> <<>>, ok |-> FALSE, object |-> FALSE]

ResultSets ==
    { [totalCount |-> Absent, total |-> Absent, provenanceEvents |-> <<>>],
      [totalCount |-> Some(5), total |-> Absent,
       provenanceEvents |-> << EventRecord("e1", <<1, 2>>, TRUE),
                               EventRecord("e2", <<2, 1>>, TRUE) >>],
      [totalCount |-> Absent, total |-> Some(<<"1", ",", "0", "0", "0">>),
       provenanceEvents |-> << EventRecord("e1", <<2, 1>>, FALSE),
                               EventRecord("e2", <<1, 2>>, TRUE) >>],
      [totalCount |-> Absent, total |-> Some(<<"x">>),
       provenanceEvents |-> << EventRecord("e1", <<1, 2>>, FALSE) >>],
      [totalCount |-> Some(2), total |-> Absent,
       provenanceEvents |-> << NotAnObject, EventRecord("e2", <<1, 2>>, TRUE) >>] }

EmptyResults == [totalCount |-> Absent, total |-> Absent, provenanceEvents |-> <<>>]

-----------------------------------------------------------------------------
(* Processing of a result set: lines 433-465 and 496-523 *)

Digits == {"0", "1", "2", "3", "4", "5", "6", "7", "8", "9"}

DigitValue(c) ==
    CASE c = "0" -> 0 [] c = "1" -> 1 [] c = "2" -> 2 [] c = "3" -> 3
      [] c = "4" -> 4 [] c = "5" -> 5 [] c = "6" -> 6 [] c = "7" -> 7
      [] c = "8" -> 8 [] c = "9" -> 9

\* str.replace(",", "")
RECURSIVE RemoveCommas(_)
RemoveCommas(s) ==
    IF s = <<>> THEN <<>>
    ELSE IF Head(s) = "," THEN RemoveCommas(Tail(s))
    ELSE <<Head(s)>> \o RemoveCommas(Tail(s))

RECURSIVE DecimalValue(_, _)
DecimalValue(s, acc) ==
    IF s = <<>> THEN acc
    ELSE DecimalValue(Tail(s), 10 * acc + DigitValue(Head(s)))

\* int(str(total_str).replace(",", "")): Absent stands for ValueError
ParseTotal(s) ==
    LET t == RemoveCommas(s) IN
    IF t # <<>> /\ \A i \in 1..Len(t) : t[i] \in Digits
    THEN Some(DecimalValue(t, 0))
    ELSE Absent

TotalCountOfValid(results_data) ==
    LET events_data == results_data.provenanceEvents IN
    IF results_data.totalCount # Absent THEN results_data.totalCount[1]
    ELSE Cardinality({ i \in DOMAIN events_data : events_data[i].ok })

TotalCountOfDelivered(results_data) == Len(results_data.provenanceEvents)

\* lines 437-447 and 500-509
TotalCount(results_data) ==
    LET events_data == results_data.provenanceEvents IN
    IF results_data.totalCount # Absent THEN results_data.totalCount[1]
    ELSE IF results_data.total # Absent /\ results_data.total[1] # <<>>
         THEN IF ParseTotal(results_data.total[1]) # Absent
              THEN ParseTotal(results_data.total[1])[1]
              ELSE Len(events_data)
         ELSE Len(events_data)

\* ProvenanceEvent.model_validate: the typed event of a record that passes
Validated(event_data) ==
    [id |-> event_data.id, event_time |-> event_data.eventTime]

\* lines 452-461 and 511-520: records failing validation are dropped
RECURSIVE ParseEvents(_)
ParseEvents(events_data) ==
    IF events_data = <<>> THEN <<>>
    ELSE IF Head(events_data).ok
         THEN <<Validated(Head(events_data))>> \o ParseEvents(Tail(events_data))
         ELSE ParseEvents(Tail(events_data))

\* lines 459 and 518: the except clause formats event_data.get('id',
\* 'unknown') for its warning, which raises AttributeError when the record
\* is no object; nothing inside the loop catches that
ParseRaises(events_data) ==
    \E i \in 1..Len(events_data) : ~events_data[i].ok /\ ~events_data[i].object

\* Python's < on str: lexicographic on the characters
RECURSIVE StrLess(_, _)
StrLess(a, b) ==
    IF b = <<>> THEN FALSE
    ELSE IF a = <<>> THEN TRUE
    ELSE IF Head(a) # Head(b) THEN Head(a) < Head(b)
    ELSE StrLess(Tail(a), Tail(b))

\* one step of a stable descending insertion: e goes after every element
\* whose key is not smaller than its own
RECURSIVE InsertDesc(_, _)
InsertDesc(e, s) ==
    IF s = <<>> THEN <<e>>
    ELSE IF StrLess(Head(s).event_time, e.event_time)
         THEN <<e>> \o s
         ELSE <<Head(s)>> \o InsertDesc(e, Tail(s))

\* events.sort(key=lambda x: x.event_time, reverse=True): stable
RECURSIVE SortDesc(_)
SortDesc(s) ==
    IF s = <<>> THEN <<>>
    ELSE InsertDesc(s[Len(s)], SortDesc(SubSeq(s, 1, Len(s) - 1)))

\* events[:max_results], Python slice semantics
Slice(s, n) ==
    IF n >= 0 THEN SubSeq(s, 1, Min(n, Len(s)))
    ELSE SubSeq(s, 1, IF Len(s) + n > 0 THEN Len(s) + n ELSE 0)

\* lines 469-474 and 528-533
ProvenanceEventsResponse(total, evs, mr) ==
    [kind |-> "ok", processorId |-> ProcessorId, totalEvents |-> total,
     events |-> Slice(evs, mr)]

-----------------------------------------------------------------------------
(* Exceptions and how they leave get_provenance_events *)

NoError == [type |-> None, msg |-> "", detail |-> ""]
NoResult == [kind |-> None]
NoResponse ==
    [kind |-> None, id |-> None, status |-> None, message |-> None,
     results |-> [totalCount |-> <<>>, total |-> <<>>, provenanceEvents |-> <<>>]]

NiFiAPIError(msg, detail) == [type |-> "NiFiAPIError", msg |-> msg, detail |-> detail]
HTTPStatusError(code) == [type |-> "HTTPStatusError", msg |-> "status", detail |-> code]
OtherException(what) == [type |-> "Exception", msg |-> what, detail |-> ""]

\* lines 545-554: NiFiAPIError and HTTPStatusError are re-raised as they
\* are, anything else is wrapped
InnerHandler(exc) ==
    IF exc.type \in {"NiFiAPIError", "HTTPStatusError"} THEN exc
    ELSE NiFiAPIError("Failed to get provenance events", exc.msg)

\* lines 556-563
OuterHandler(exc) ==
    IF exc.type = "HTTPStatusError" THEN NiFiAPIError("HTTP error", exc.detail)
    ELSE IF exc.type = "NiFiAPIError" THEN exc
    ELSE NiFiAPIError("Failed to get provenance events", exc.msg)

\* what the caller of get_provenance_events sees of an exception raised
\* inside the inner try
Raised(exc) ==
    LET e == OuterHandler(InnerHandler(exc)) IN
    [kind |-> "error", type |-> e.type, msg |-> e.msg, detail |-> e.detail]

NeedsCleanupAlways(q) == TRUE

NeedsCleanupNever(q) == FALSE

\* lines 547 and 552: if query_id
NeedsCleanup(q) == q # None

\* main.py 192-208 (and 225-241): the endpoint's try/except
EndpointStatusInternal(res) == IF res.kind = "ok" THEN 200 ELSE 500

EndpointStatus(res) ==
    IF res.kind = "ok" THEN 200
    ELSE IF res.type = "HTTPException" THEN 400
    ELSE IF res.type = "NiFiAPIError" THEN 502
    ELSE 500

\* main.py:196 (GET passes min(max_results, 1000)); POST and a direct call
\* pass the value on
ClientMaxResults(ep, raw) ==
    IF ep = "GET" THEN Min(raw, MaxResultsCap) ELSE raw

-----------------------------------------------------------------------------
(* Upstream answers *)

Response(kind, id, status, message, results) ==
    [kind |-> kind, id |-> id, status |-> status, message |-> message,
     results |-> results]

FailureResponses ==
    { Response(k, None, None, None, EmptyResults) :
        k \in {"transport_error", "status_500", "bad_json"} }

\* answers to POST /provenance; c is the id of the query upstream created
\* for it, None when it created none
SubmitResponses(c) ==
    FailureResponses
    \cup { Response("json", None, None, None, EmptyResults) }
    \cup IF c = None THEN {}
         ELSE { Response("json", c, s, None, r) :
                  s \in {"RUNNING", "FINISHED"}, r \in ResultSets }

\* answers to GET /provenance/{id}
PollResponses(q) ==
    FailureResponses
    \cup { Response("json", q, s, None, EmptyResults) : s \in {"RUNNING", None} }
    \cup { Response("json", q, "FAILED", m, EmptyResults) : m \in {None, "boom"} }
    \cup { Response("json", q, "FINISHED", None, r) : r \in ResultSets }

\* the exception a failed request or an unparsable body raises (lines
\* 417-423 and 484-489)
ResponseError(resp) ==
    CASE resp.kind = "transport_error" -> OtherException("transport")
      [] resp.kind = "status_500" -> HTTPStatusError("500")
      [] resp.kind = "bad_json" -> OtherException("json")

Call(op, id, mr) == [op |-> op, id |-> id, maxResults |-> mr]

-----------------------------------------------------------------------------
(* Control transfers shared by the actions *)

\* raise exc inside the inner try: cleanup first when a query id is known
RaiseWithoutCleanup(exc, q) ==
    /\ pc' = "done"
    /\ error' = exc
    /\ result' = Raised(exc)
    /\ http_status' = EndpointStatus(Raised(exc))
    /\ UNCHANGED after_delete

\* lines 545-554: an exception inside the inner try deletes the query, if
\* one was created, and is re-raised
Raise(exc, q) ==
    IF NeedsCleanup(q)
    THEN /\ pc' = "delete"
         /\ after_delete' = "reraise"
         /\ error' = exc
         /\ UNCHANGED <<result, http_status>>
    ELSE /\ pc' = "done"
         /\ error' = exc
         /\ result' = Raised(exc)
         /\ http_status' = EndpointStatus(Raised(exc))
         /\ UNCHANGED after_delete

Return(res) ==
    /\ pc' = "done"
    /\ result' = res
    /\ http_status' = EndpointStatus(res)
    /\ UNCHANGED <<after_delete, error>>

StartDeleteSkipped(after) ==
    /\ pc' = "deleted"
    /\ after_delete' = after
    /\ UNCHANGED <<error, result, http_status>>

\* await self._delete_provenance_query(client, query_id), then `after`
StartDelete(after) ==
    /\ pc' = "delete"
    /\ after_delete' = after
    /\ UNCHANGED <<error, result, http_status>>

InlineAvailableAlways(events_data) == TRUE

InlineAvailableNever(events_data) == FALSE

\* line 450: if events_data
InlineAvailable(events_data) == events_data # <<>>

IsFailedNever(status) == FALSE

\* lines 494 and 534
IsFinished(status) == status = "FINISHED"
IsFailed(status) == status = "FAILED"

PollsLeftOneMore(n) == n <= max_polls

\* line 480: for poll_num in range(max_polls)
PollsLeft(n) == n < max_polls

FailureMessageDropped(m) == "Query failed"

\* line 537: provenance.get("message", "Query failed")
FailureMessage(m) == IF m = None THEN "Query failed" ELSE m

\* lines 452-464: the events built from the submission's answer
InlineEvents(events_data) == SortDesc(ParseEvents(events_data))

PolledEventsUnsorted(events_data) == ParseEvents(events_data)

\* lines 511-523: the events built from the answer of a FINISHED poll
PolledEvents(events_data) == SortDesc(ParseEvents(events_data))

-----------------------------------------------------------------------------
(* get_provenance_events *)

ProvIdle ==
    /\ pc = "idle"
    /\ endpoint = None
    /\ max_results = 0
    /\ query_id = None
    /\ poll_num = 0
    /\ events = <<>>
    /\ total_count = 0
    /\ after_delete = None
    /\ error = NoError
    /\ calls = <<>>
    /\ created = {}
    /\ submit_resp = NoResponse
    /\ poll_resp = NoResponse
    /\ delete_failed = FALSE
    /\ result = NoResult
    /\ http_status = 0

\* a request reaches the endpoint, which calls the client method
Invoke ==
    /\ pc = "idle"
    /\ UNCHANGED <<hvars, avars, cvars, wvars>>
    /\ \E r \in Requests :
         /\ endpoint' = r[1]
         /\ max_results' = ClientMaxResults(r[1], r[2])
    /\ pc' = "submit"
    /\ UNCHANGED <<token, query_id, poll_num, events, total_count, after_delete,
                   error, calls, created, submit_resp, poll_resp, delete_failed,
                   result, http_status>>

\* _get_headers with no cached token: the token exchange (lines 42-77).
\* Its failure is a NiFiAPIError raised where _get_headers was awaited; in
\* _delete_provenance_query it is swallowed (line 584).
AcquireToken ==
    /\ pc \in {"submit", "poll", "delete"}
    /\ UNCHANGED <<hvars, cvars, wvars, reqs, a_calls>>
    /\ token = None
    /\ \E t \in Tokens \cup {None} :
         IF t # None
         THEN /\ token' = t
              /\ issued' = issued \cup {t}
              /\ UNCHANGED <<pc, after_delete, error, result, http_status,
                             delete_failed>>
         ELSE /\ token' = None
              /\ UNCHANGED issued
              /\ IF pc = "delete"
                 THEN /\ delete_failed' = TRUE
                      /\ pc' = "deleted"
                      /\ UNCHANGED <<after_delete, error, result, http_status>>
                 ELSE /\ Raise(NiFiAPIError("Failed to authenticate", ""), query_id)
                      /\ UNCHANGED delete_failed
    /\ UNCHANGED <<endpoint, max_results, query_id, poll_num, events, total_count,
                   calls, created, submit_resp, poll_resp>>

\* lines 417-474: POST /provenance and what follows its answer up to the
\* next await
Submit ==
    /\ pc = "submit"
    /\ UNCHANGED <<hvars, avars, cvars, wvars>>
    /\ token # None
    /\ \E c \in {None} \cup (QueryIds \ created) :
       \E resp \in SubmitResponses(c) :
         /\ created' = IF c = None THEN created ELSE created \cup {c}
         /\ submit_resp' = resp
         /\ calls' = Append(calls, Call("POST", None, Min(max_results, MaxResultsCap)))
         /\ IF resp.kind # "json"
            THEN /\ Raise(ResponseError(resp), None)
                 /\ UNCHANGED <<query_id, events, total_count>>
            ELSE IF resp.id = None
            THEN /\ Raise(NiFiAPIError("Failed to get query ID from provenance request", ""),
                          None)
                 /\ UNCHANGED <<query_id, events, total_count>>
            ELSE /\ query_id' = resp.id
                 /\ total_count' = TotalCount(resp.results)
                 /\ IF InlineAvailable(resp.results.provenanceEvents)
                    THEN IF ParseRaises(resp.results.provenanceEvents)
                         THEN /\ Raise(OtherException("AttributeError"), resp.id)
                              /\ UNCHANGED events
                         ELSE /\ events' = InlineEvents(resp.results.provenanceEvents)
                              /\ StartDelete("return")
                    ELSE /\ pc' = "poll"
                         /\ UNCHANGED <<events, after_delete, error, result, http_status>>
    /\ UNCHANGED <<token, endpoint, max_results, poll_num, poll_resp, delete_failed>>

\* lines 480-543: one iteration of the polling loop, and the end of the
\* loop after the last one
Poll ==
    /\ pc = "poll"
    /\ UNCHANGED <<hvars, avars, cvars, wvars>>
    /\ token # None
    /\ \E resp \in PollResponses(query_id) :
         /\ poll_resp' = resp
         /\ calls' = Append(calls, Call("GET", query_id, 0))
         /\ poll_num' = poll_num + 1
         /\ IF resp.kind # "json"
            THEN /\ Raise(ResponseError(resp), query_id)
                 /\ UNCHANGED <<events, total_count>>
            ELSE IF IsFinished(resp.status)
            THEN /\ total_count' = TotalCount(resp.results)
                 /\ IF ParseRaises(resp.results.provenanceEvents)
                    THEN /\ Raise(OtherException("AttributeError"), query_id)
                         /\ UNCHANGED events
                    ELSE /\ events' = PolledEvents(resp.results.provenanceEvents)
                         /\ StartDelete("return")
            ELSE IF IsFailed(resp.status)
            THEN /\ StartDelete("raise_failed")
                 /\ UNCHANGED <<events, total_count>>
            ELSE IF PollsLeft(poll_num + 1)
            THEN /\ UNCHANGED <<pc, after_delete, error, result, http_status,
                                events, total_count>>
            ELSE /\ StartDelete("raise_timeout")
                 /\ UNCHANGED <<events, total_count>>
    /\ UNCHANGED <<token, endpoint, max_results, query_id, created, submit_resp,
                   delete_failed>>

DeleteRaisesOnFailure(outcome) == outcome = "transport_error"

\* line 584: an exception inside _delete_provenance_query is logged, never
\* re-raised
DeleteRaises(outcome) == FALSE

\* lines 574-585: DELETE /provenance/{query_id}; its status is not looked
\* at.  An exception leaving the helper would be raised where the helper was
\* awaited: inside the inner try (lines 467, 526, 536, 542), or inside one
\* of its handlers (lines 548, 553), which only the outer try encloses.
Delete ==
    /\ pc = "delete"
    /\ UNCHANGED <<hvars, avars, cvars, wvars>>
    /\ token # None
    /\ calls' = Append(calls, Call("DELETE", query_id, 0))
    /\ \E outcome \in {"ok", "status_500", "transport_error"} :
         /\ delete_failed' = (delete_failed \/ outcome = "transport_error")
         /\ IF ~DeleteRaises(outcome)
            THEN /\ pc' = "deleted"
                 /\ UNCHANGED <<after_delete, error, result, http_status>>
            ELSE IF after_delete = "reraise"
            THEN /\ pc' = "done"
                 /\ error' = OtherException("transport")
                 /\ result' = Raised(OtherException("transport"))
                 /\ http_status' = EndpointStatus(Raised(OtherException("transport")))
                 /\ UNCHANGED after_delete
            ELSE Raise(OtherException("transport"), query_id)
    /\ UNCHANGED <<token, endpoint, max_results, query_id, poll_num, events,
                   total_count, created, submit_resp, poll_resp>>

\* what follows the return of _delete_provenance_query: lines 469-474,
\* 528-533, 537-538, 543, 549 and 554
AfterDelete ==
    /\ pc = "deleted"
    /\ UNCHANGED <<hvars, avars, cvars, wvars>>
    /\ CASE after_delete = "return" ->
              Return(ProvenanceEventsResponse(total_count, events, max_results))
         [] after_delete = "raise_failed" ->
              Raise(NiFiAPIError("Provenance query failed",
                                 FailureMessage(poll_resp.message)), query_id)
         [] after_delete = "raise_timeout" ->
              Raise(NiFiAPIError("Provenance query timed out", ""), query_id)
         [] after_delete = "reraise" ->
              /\ pc' = "done"
              /\ result' = Raised(error)
              /\ http_status' = EndpointStatus(Raised(error))
              /\ UNCHANGED <<after_delete, error>>
    /\ UNCHANGED <<token, endpoint, max_results, query_id, poll_num, events,
                   total_count, calls, created, submit_resp, poll_resp,
                   delete_failed>>

Next == Invoke \/ AcquireToken \/ Submit \/ Poll \/ Delete \/ AfterDelete

-----------------------------------------------------------------------------
(* Upstream process groups *)

\* largest max_depth a walk is started with
MaxDepthBound == 2

\* line 196: max_depth: int = 10
DefaultMaxDepth == 10

GroupIds == {"root", "a", "b", "c"}

\* an entry of flow.processGroups: the child's id and, under "component",
\* its name; either may be absent
Entry(id, name) == [id |-> id, name |-> name]

\* an entry of flow.processors or flow.connections; ok says whether the
\* typed model accepts it
Item(id, ok) == [id |-> id, ok |-> ok, object |-> TRUE]

\* an entry that is no JSON object, or whose "component" is null
NoComponent == [id |-> "", ok |-> FALSE, object |-> FALSE]

Flow(processors, connections, processGroups) ==
    [processors |-> processors, connections |-> connections,
     processGroups |-> processGroups]

\* a tree of depth 2 with an entry that has no id and one that has no name
TreeTopology ==
    [g \in GroupIds |->
        CASE g = "root" ->
               Flow(<<Item("p1", TRUE), Item("p2", FALSE)>>, <<Item("k1", TRUE)>>,
                    <<Entry(Some("a"), Some("A")), Entry(Absent, Some("X")),
                      Entry(Some("b"), Absent)>>)
          [] g = "a" -> Flow(<<>>, <<Item("k2", FALSE)>>, <<Entry(Some("c"), Some("C"))>>)
          [] OTHER -> Flow(<<>>, <<>>, <<>>)]

\* upstream data in which a group lists its parent as its child
CycleTopology ==
    [g \in GroupIds |->
        CASE g = "root" -> Flow(<<>>, <<>>, <<Entry(Some("a"), Some("A"))>>)
          [] g = "a" -> Flow(<<Item("p3", TRUE)>>, <<>>, <<Entry(Some("root"), Absent)>>)
          [] OTHER -> Flow(<<>>, <<>>, <<>>)]

Topologies == {TreeTopology, CycleTopology}

\* the entity GET /process-groups/{g} answers with: "component" (id, name,
\* comments) and the counters, of which upstream may omit any
PgData(g) ==
    [id |-> IF g = "c" THEN Absent ELSE Some(g),
     name |-> IF g = "b" THEN Absent ELSE Some(<<"name of", g>>),
     comments |-> IF g = "a" THEN Some(<<"note">>) ELSE Absent,
     runningCount |-> IF g = "root" THEN Some(2) ELSE Absent,
     stoppedCount |-> IF g \in {"root", "a"} THEN Some(1) ELSE Absent]

NoData == [id |-> Absent, name |-> Absent, comments |-> Absent,
           runningCount |-> Absent, stoppedCount |-> Absent]

\* dict.get(key, default)
GetOr(field, default) == IF field = Absent THEN default ELSE field[1]

CounterUnset(field) == IF field = Absent THEN -1 ELSE field[1]

\* lines 271-283 and 346-358: a counter is read with .get(key, 0)
Counter(field) == GetOr(field, 0)

-----------------------------------------------------------------------------
(* get_process_group_hierarchy: the locals of one call *)

\* lines 222-263: the entries the typed model accepts, in upstream order
RECURSIVE ParseItems(_)
ParseItems(items) ==
    IF items = <<>> THEN <<>>
    ELSE IF Head(items).ok
         THEN <<[id |-> Head(items).id]>> \o ParseItems(Tail(items))
         ELSE ParseItems(Tail(items))

\* lines 225 and 245 read proc.get("component", {}) outside the try, and
\* the except clauses at 240 and 263 format proc_component.get('id'): both
\* raise AttributeError on an entry without a component object, and
\* nothing in the call catches it
ItemsRaise(items) == \E i \in 1..Len(items) : ~items[i].object

Node(id, name, comments, running, stopped, processors, connections) ==
    [id |-> id, name |-> name, comments |-> comments,
     running_count |-> running, stopped_count |-> stopped,
     processors |-> processors, connections |-> connections, children |-> <<>>]

NoNode == Node("", "", Absent, 0, 0, <<>>, <<>>)

\* lines 266-288
PgDetail(group_id, pg_data, flow) ==
    Node(GetOr(pg_data.id, group_id), GetOr(pg_data.name, "Unknown"),
         pg_data.comments, Counter(pg_data.runningCount),
         Counter(pg_data.stoppedCount), ParseItems(flow.processors),
         ParseItems(flow.connections))

StandInUnnamed(child_id, entry_name, exc) ==
    Node(child_id, "Error Loading",
         Some(<<"Error: ", exc.msg, exc.detail>>), 0, 0, <<>>, <<>>)

\* lines 308-313: the minimal child entry put in place of a child that
\* raised; comments is f"Error: {str(e)}"
StandIn(child_id, entry_name, exc) ==
    Node(child_id, GetOr(entry_name, "Error Loading"),
         Some(<<"Error: ", exc.msg, exc.detail>>), 0, 0, <<>>, <<>>)

PrependChild(children, child) == <<child>> \o children

\* lines 304 and 308: pg_detail.children.append(...)
AppendChild(children, child) == Append(children, child)

DepthBoundOff(depth, md) == depth > md + 1

DepthBoundLoose(depth, md) == depth > md + 2

\* line 208
DepthExceeded(depth, md) == depth > md

\* line 210
MaxDepthError == NiFiAPIError("Max recursion depth reached", "")

ContainedNever(exc) == FALSE

\* line 305: except Exception
Contained(exc) == TRUE

FrameSkipsEntity(group_id, depth, path, entry_name) ==
    [group_id |-> group_id, depth |-> depth, path |-> path,
     entry_name |-> entry_name, phase |-> "get_process_group_flow",
     pg_data |-> NoData, pg_detail |-> NoNode, child_groups |-> <<>>, idx |-> 1]

\* the locals of a call that has passed the depth guard
Frame(group_id, depth, path, entry_name) ==
    [group_id |-> group_id, depth |-> depth, path |-> path,
     entry_name |-> entry_name, phase |-> "get_process_group",
     pg_data |-> NoData, pg_detail |-> NoNode, child_groups |-> <<>>, idx |-> 1]

Top == stack[Len(stack)]
Callers == SubSeq(stack, 1, Len(stack) - 1)

\* the answers to a fetch; the token exchange comes first when no token is
\* cached, and may fail
FetchOutcomes ==
    {"ok", "status_500", "transport_error"}
    \cup IF token = None THEN {"auth_failed"} ELSE {}

\* the answers to the flow fetch: those of any fetch, or a 2xx flow in
\* which one more processor entry has no component object
FlowOutcomes == FetchOutcomes \cup {"null_component"}

\* the flow of group g in a 2xx answer
DeliveredFlow(g, outcome) ==
    IF outcome = "null_component"
    THEN [topology[g] EXCEPT !.processors = Append(@, NoComponent)]
    ELSE topology[g]

\* lines 139-144 and 165-170: what a failed fetch raises
FetchError(outcome, what) ==
    CASE outcome = "status_500" -> NiFiAPIError("HTTP error", "500")
      [] outcome = "transport_error" -> NiFiAPIError(what, "transport")
      [] outcome = "auth_failed" -> NiFiAPIError(what, "Failed to authenticate")

\* a request of the walk; path tells which call of
\* get_process_group_hierarchy sent it: the positions, from the outermost
\* call down, of the child entries that led to it
HCall(op, group_id, depth, path) ==
    [op |-> op, id |-> group_id, depth |-> depth, path |-> path]

\* upstream's record of a fetch it failed
Failure(op, path, exc) == [op |-> op, path |-> path, exc |-> exc]

ErrorOf(exc) ==
    [kind |-> "error", type |-> exc.type, msg |-> exc.msg, detail |-> exc.detail]

HRaiseSkipsSiblings(exc) ==
    IF Len(stack) > 1
    THEN /\ stack' = [Callers EXCEPT ![Len(stack) - 1] =
                        [@ EXCEPT !.pg_detail.children =
                                      AppendChild(@, StandIn(Top.group_id, Top.entry_name, exc)),
                                  !.idx = Len(stack[Len(stack) - 1].child_groups) + 1]]
         /\ UNCHANGED <<h_pc, h_result>>
    ELSE /\ stack' = <<>>
         /\ h_pc' = "done"
         /\ h_result' = ErrorOf(exc)

HRaiseMasked(exc) ==
    IF Len(stack) > 1
    THEN /\ stack' = [Callers EXCEPT ![Len(stack) - 1] =
                        [@ EXCEPT !.pg_detail.children =
                                      AppendChild(@, StandIn(Top.group_id, Top.entry_name, exc)),
                                  !.idx = @ + 1]]
         /\ UNCHANGED <<h_pc, h_result>>
    ELSE /\ stack' = <<>>
         /\ h_pc' = "done"
         /\ h_result' = [kind |-> "ok",
                         node |-> StandIn(Top.group_id, Top.entry_name, exc)]

\* the call on top of the stack raises exc: its caller, if it has one,
\* catches it and appends the stand-in (lines 305-313)
HRaise(exc) ==
    IF Len(stack) > 1 /\ Contained(exc)
    THEN /\ stack' = [Callers EXCEPT ![Len(stack) - 1] =
                        [@ EXCEPT !.pg_detail.children =
                                      AppendChild(@, StandIn(Top.group_id, Top.entry_name, exc)),
                                  !.idx = @ + 1]]
         /\ UNCHANGED <<h_pc, h_result>>
    ELSE /\ stack' = <<>>
         /\ h_pc' = "done"
         /\ h_result' = ErrorOf(exc)

\* the token after a fetch: the exchange, when it was needed and succeeded,
\* cached its token (line 76)
TokenAfter(outcome) ==
    IF token = None /\ outcome # "auth_failed" THEN CHOOSE t \in Tokens : TRUE
    ELSE token

-----------------------------------------------------------------------------
(* get_process_group_hierarchy *)

HierIdle ==
    /\ h_pc = "idle"
    /\ h_depth = 0
    /\ max_depth = 0
    /\ stack = <<>>
    /\ h_calls = <<>>
    /\ h_failures = {}
    /\ topology \in Topologies
    /\ h_result = NoResult
    /\ h_root = None

\* a caller starts a walk on the root group; lines 208-210
HInvoke ==
    /\ h_pc = "idle"
    /\ \E depth \in {0, 1}, md \in 0..MaxDepthBound :
         /\ h_depth' = depth
         /\ max_depth' = md
         /\ IF DepthExceeded(depth, md)
            THEN /\ h_pc' = "done"
                 /\ h_result' = ErrorOf(MaxDepthError)
                 /\ stack' = <<>>
            ELSE /\ h_pc' = "walking"
                 /\ stack' = <<Frame("root", depth, <<>>, Absent)>>
                 /\ UNCHANGED h_result
    /\ UNCHANGED <<token, pvars, avars, cvars, wvars, h_calls, h_failures, topology, h_root>>

\* the answers to GET /flow/process-groups/root: those of any fetch, or a
\* body without processGroupFlow.id (line 115 raises KeyError)
RootOutcomes == FetchOutcomes \cup {"no_id"}

\* line 118: every failure of get_root_process_group_id is wrapped
RootIdError(outcome) ==
    NiFiAPIError("Failed to get root process group ID", outcome)

\* lines 323-325, with get_root_process_group_id (lines 106-118):
\* get_all_process_groups_hierarchy resolves the root id, then starts the
\* walk there with the default depth and max_depth
HGetAll ==
    /\ h_pc = "idle"
    /\ \E outcome \in RootOutcomes :
         /\ token' = TokenAfter(outcome)
         /\ issued' = issued \cup (IF token' = None THEN {} ELSE {token'})
         /\ h_root' = outcome
         /\ h_depth' = 0
         /\ max_depth' = DefaultMaxDepth
         /\ IF outcome = "ok"
            THEN /\ h_pc' = "walking"
                 /\ stack' = <<Frame("root", 0, <<>>, Absent)>>
                 /\ UNCHANGED h_result
            ELSE /\ h_pc' = "done"
                 /\ h_result' = ErrorOf(RootIdError(outcome))
                 /\ stack' = <<>>
    /\ UNCHANGED <<pvars, cvars, wvars, reqs, a_calls, h_calls, h_failures, topology>>

\* lines 215-216: await self.get_process_group(group_id)
HGetProcessGroup ==
    /\ h_pc = "walking"
    /\ Top.phase = "get_process_group"
    /\ \E outcome \in FetchOutcomes :
         /\ token' = TokenAfter(outcome)
         /\ issued' = issued \cup (IF token' = None THEN {} ELSE {token'})
         /\ h_calls' = IF outcome = "auth_failed" THEN h_calls
                       ELSE Append(h_calls, HCall("get_process_group", Top.group_id,
                                                  Top.depth, Top.path))
         /\ IF outcome = "ok"
            THEN /\ stack' = [stack EXCEPT ![Len(stack)] =
                                [@ EXCEPT !.pg_data = PgData(Top.group_id),
                                          !.phase = "get_process_group_flow"]]
                 /\ UNCHANGED <<h_pc, h_result, h_failures>>
            ELSE /\ HRaise(FetchError(outcome, "Failed to get process group"))
                 /\ h_failures' = h_failures \cup
                      {Failure("get_process_group", Top.path,
                               FetchError(outcome, "Failed to get process group"))}
    /\ UNCHANGED <<pvars, cvars, wvars, reqs, a_calls, h_depth, max_depth, topology, h_root>>

\* lines 219-292: await self.get_process_group_flow(group_id), then the
\* node is built from the two answers
HGetProcessGroupFlow ==
    /\ h_pc = "walking"
    /\ Top.phase = "get_process_group_flow"
    /\ \E outcome \in FlowOutcomes :
         /\ token' = TokenAfter(outcome)
         /\ issued' = issued \cup (IF token' = None THEN {} ELSE {token'})
         /\ h_calls' = IF outcome = "auth_failed" THEN h_calls
                       ELSE Append(h_calls, HCall("get_process_group_flow",
                                                  Top.group_id, Top.depth, Top.path))
         /\ IF outcome \notin {"ok", "null_component"}
            THEN /\ HRaise(FetchError(outcome, "Failed to get process group flow"))
                 /\ h_failures' = h_failures \cup
                      {Failure("get_process_group_flow", Top.path,
                               FetchError(outcome, "Failed to get process group flow"))}
            ELSE LET flow == DeliveredFlow(Top.group_id, outcome) IN
                 IF ItemsRaise(flow.processors) \/ ItemsRaise(flow.connections)
                 THEN /\ HRaise(OtherException("AttributeError"))
                      /\ h_failures' = h_failures \cup
                           {Failure("flow_entries", Top.path,
                                    OtherException("AttributeError"))}
                 ELSE /\ stack' = [stack EXCEPT ![Len(stack)] =
                                     [@ EXCEPT !.pg_detail =
                                                   PgDetail(Top.group_id, Top.pg_data, flow),
                                               !.child_groups = flow.processGroups,
                                               !.phase = "children"]]
                      /\ UNCHANGED <<h_pc, h_result, h_failures>>
    /\ UNCHANGED <<pvars, cvars, wvars, reqs, a_calls, h_depth, max_depth, topology, h_root>>

\* lines 295-313: one iteration of the loop over child_groups, up to the
\* first await of the recursive call
HChild ==
    /\ h_pc = "walking"
    /\ Top.phase = "children"
    /\ Top.idx <= Len(Top.child_groups)
    /\ LET child_pg == Top.child_groups[Top.idx] IN
         IF child_pg.id = Absent
         THEN /\ stack' = [stack EXCEPT ![Len(stack)].idx = @ + 1]
              /\ UNCHANGED <<h_pc, h_result>>
         ELSE IF DepthExceeded(Top.depth + 1, max_depth)
         THEN IF Contained(MaxDepthError)
              THEN /\ stack' = [stack EXCEPT ![Len(stack)] =
                                 [@ EXCEPT !.pg_detail.children =
                                               AppendChild(@, StandIn(child_pg.id[1],
                                                                 child_pg.name,
                                                                 MaxDepthError)),
                                           !.idx = @ + 1]]
                   /\ UNCHANGED <<h_pc, h_result>>
              ELSE /\ stack' = <<>>
                   /\ h_pc' = "done"
                   /\ h_result' = ErrorOf(MaxDepthError)
         ELSE /\ stack' = Append(stack, Frame(child_pg.id[1], Top.depth + 1,
                                              Append(Top.path, Top.idx), child_pg.name))
              /\ UNCHANGED <<h_pc, h_result>>
    /\ UNCHANGED <<token, pvars, avars, cvars, wvars, h_depth, max_depth, h_calls, h_failures, topology, h_root>>

\* line 315 and line 304: return pg_detail; the caller appends it
HReturn ==
    /\ h_pc = "walking"
    /\ Top.phase = "children"
    /\ Top.idx > Len(Top.child_groups)
    /\ IF Len(stack) = 1
       THEN /\ stack' = <<>>
            /\ h_pc' = "done"
            /\ h_result' = [kind |-> "ok", node |-> Top.pg_detail]
       ELSE /\ stack' = [Callers EXCEPT ![Len(stack) - 1] =
                           [@ EXCEPT !.pg_detail.children = AppendChild(@, Top.pg_detail),
                                     !.idx = @ + 1]]
            /\ UNCHANGED <<h_pc, h_result>>
    /\ UNCHANGED <<token, pvars, avars, cvars, wvars, h_depth, max_depth, h_calls, h_failures, topology, h_root>>

HierNext ==
    HInvoke \/ HGetAll \/ HGetProcessGroup \/ HGetProcessGroupFlow \/ HChild \/ HReturn

-----------------------------------------------------------------------------
(* The endpoints of main.py and the shared client *)

\* the requests in progress at the same time
Reqs == {1, 2}

ContentEndpoint == "/api/provenance-events/{event_id}/content/{content_type}"

Endpoints ==
    {"/api/health", "/api/flow/status", "/api/process-groups/{group_id}",
     "/api/provenance-events/{event_id}", ContentEndpoint}

\* the values of the content_type path parameter tried
ContentTypes == {"input", "sideways"}

ValidSideAny(content_type) == TRUE

\* main.py 286: if content_type not in ["input", "output"]
ValidSide(content_type) == content_type \in {"input", "output"}

\* nifi_client.py 643: the client method's own check, raising ValueError
ClientValidSide(content_type) == content_type \in {"input", "output"}

\* main.py 287
HTTPException(code, msg) == [type |-> "HTTPException", msg |-> msg, detail |-> code]

\* the tokens upstream may answer a token exchange with
RaceTokens == {"jwt", "jwt-2"}

\* the group asked for at /api/process-groups/{group_id}: one without
\* children, processors and connections
LeafGroup == "c"

\* the first upstream request of the client method an endpoint calls
FirstCall(ep) ==
    CASE ep = "/api/health" -> "flow/about"
      [] ep = "/api/flow/status" -> "flow/status"
      [] ep = "/api/process-groups/{group_id}" -> "process-groups"
      [] ep = "/api/provenance-events/{event_id}" -> "provenance-events"
      [] ep = ContentEndpoint -> "provenance-events/content"

\* line 219: the flow fetch follows the entity fetch
NextCall(op) == IF op = "process-groups" THEN "flow/process-groups" ELSE None

\* upstream's answers to a request; ill_typed: a 2xx entity whose counters
\* are no integers
Outcomes(op) ==
    {"ok", "status_401", "status_500", "transport_error", "bad_json"}
    \cup IF op = "process-groups" THEN {"ill_typed"} ELSE {}

\* the controllerStatus objects of a 2xx answer to GET /flow/status
ControllerStatuses ==
    { [activeThreadCount |-> Some(3), queued |-> Some("5"), bytesQueued |-> Some(7)],
      [activeThreadCount |-> Absent, queued |-> Absent, bytesQueued |-> Absent] }

NoControllerStatus ==
    [activeThreadCount |-> Absent, queued |-> Absent, bytesQueued |-> Absent]

\* models.py 100-120 and lines 345-359
FlowStatus(controller_status) ==
    [active_thread_count |-> Counter(controller_status.activeThreadCount),
     queued_count |-> GetOr(controller_status.queued, "0"),
     bytes_queued |-> Counter(controller_status.bytesQueued)]

\* FlowStatus()
FlowStatusDefault ==
    [active_thread_count |-> 0, queued_count |-> "0", bytes_queued |-> 0]

Returned == [kind |-> "ok", type |-> None, msg |-> "", detail |-> ""]

\* a 2xx body of GET /provenance-events/{id}: the event wrapped under
\* "provenanceEvent", under "provenance"."event", or the body's own keys
EventPayload(tag, provenanceEvent, provenance, own) ==
    [tag |-> tag, provenanceEvent |-> provenanceEvent, provenance |-> provenance,
     own |-> own]

\* a body whose own keys are not those of an event
NoEvent == EventRecord("", <<>>, FALSE)

EventPayloads ==
    LET e1 == EventRecord("e1", <<1, 2>>, TRUE)
        e2 == EventRecord("e2", <<2, 1>>, TRUE)
    IN  { EventPayload("provenanceEvent", Some(e1), Absent, NoEvent),
          EventPayload("provenance.event", Absent, Some([event |-> Some(e1)]), NoEvent),
          EventPayload("bare", Absent, Absent, e1),
          EventPayload("both", Some(e1), Some([event |-> Some(e2)]), NoEvent),
          EventPayload("provenance without event", Absent,
                       Some([event |-> Absent]), e2),
          EventPayload("no event", Absent, Absent, NoEvent) }

UnwrapInnerFirst(event_data) ==
    IF event_data.provenance # Absent /\ event_data.provenance[1].event # Absent
    THEN event_data.provenance[1].event[1]
    ELSE IF event_data.provenanceEvent # Absent
    THEN event_data.provenanceEvent[1]
    ELSE event_data.own

\* lines 610-613
Unwrap(event_data) ==
    IF event_data.provenanceEvent # Absent
    THEN event_data.provenanceEvent[1]
    ELSE IF event_data.provenance # Absent /\ event_data.provenance[1].event # Absent
    THEN event_data.provenance[1].event[1]
    ELSE event_data.own

NoHealth == [available |-> FALSE, data |-> None, error |-> ""]

\* line 94: {"available": True, "data": response.json()}
HealthAvailable(data) == [available |-> TRUE, data |-> data, error |-> ""]

\* line 97: {"available": False, "error": str(e)}
HealthUnavailable(exc) == [available |-> FALSE, data |-> None, error |-> exc.msg]

HealthCheckResponseAlwaysHealthy(health) ==
    [status |-> "healthy",
     nifi_available |-> health.available,
     message |-> IF health.available THEN "All systems operational"
                 ELSE health.error]

NoBody == [none |-> TRUE]

\* main.py 87-94
HealthCheckResponse(health) ==
    [status |-> IF health.available THEN "healthy" ELSE "unhealthy",
     nifi_available |-> health.available,
     message |-> IF health.available THEN "All systems operational"
                 ELSE health.error]

\* what a failed request raises inside the client method's try
RequestError(outcome) ==
    CASE outcome \in {"status_401", "status_500"} -> HTTPStatusError(outcome)
      [] outcome = "auth_failed" -> NiFiAPIError("Failed to authenticate", "")
      [] OTHER -> OtherException(outcome)

\* lines 139-144, 165-170, 620-627 and 665-672: the except clauses of
\* get_process_group, get_process_group_flow, get_provenance_event_details
\* and get_provenance_event_content
Wrapped(op, exc) ==
    IF exc.type = "HTTPStatusError" THEN NiFiAPIError("HTTP error", exc.detail)
    ELSE IF op \in {"provenance-events", "provenance-events/content"}
            /\ exc.type = "NiFiAPIError" THEN exc
    ELSE NiFiAPIError(CASE op = "process-groups" -> "Failed to get process group"
                        [] op = "flow/process-groups" ->
                             "Failed to get process group flow"
                        [] op = "provenance-events/content" ->
                             "Failed to get provenance event content"
                        [] OTHER -> "Failed to get provenance event details",
                      exc.msg)

FlowStatusFallbackRaises(exc) == [res |-> ErrorOf(exc), body |-> NoBody]

\* lines 360-362: except Exception: return FlowStatus()
FlowStatusFallback(exc) == [res |-> Returned, body |-> FlowStatusDefault]

\* what the client method hands its endpoint when the request op failed
\* with exc
ClientFailure(op, exc) ==
    CASE op = "flow/about" ->
           [res |-> Returned, health |-> HealthUnavailable(exc),
            body |-> HealthCheckResponse(HealthUnavailable(exc))]
      [] op = "flow/status" -> FlowStatusFallback(exc)
      [] OTHER -> [res |-> ErrorOf(Wrapped(op, exc)), body |-> NoBody]

NeedsTokenAlways(tok) == TRUE

\* line 75: if not self.token
NeedsToken(tok) == tok = None

TokenAfterFailureCached(tok) == "expired"

\* line 76 when _get_access_token raises (line 66): the assignment to
\* self.token does not happen
TokenAfterFailure(tok) == tok

CachedDropped(t) == None

\* line 76: self.token = await self._get_access_token()
Cached(t) == t

ACall(r, op, tok) == [req |-> r, op |-> op, token |-> tok]

IdleRequest ==
    [pc |-> "idle", ep |-> None, content_type |-> None, op |-> None,
     payload |-> None, had_token |-> FALSE, acquired |-> 0, wrote |-> 0,
     failed |-> None, health |-> NoHealth, res |-> NoResult, body |-> NoBody,
     status |-> 0]

ApiIdle ==
    /\ reqs = [r \in Reqs |-> IdleRequest]
    /\ a_calls = <<>>
    /\ issued = IF token = None THEN {} ELSE {token}

\* the handler of r reaches _get_headers before its request op and runs to
\* its next await: the token exchange when no token is cached, else the
\* request itself, sent with the cached token
GetHeaders(r, req, op) ==
    IF NeedsToken(token)
    THEN /\ reqs' = [reqs EXCEPT ![r] =
                       [req EXCEPT !.pc = "acquiring", !.op = op,
                                   !.acquired = @ + 1]]
         /\ a_calls' = Append(a_calls, ACall(r, "access/token", None))
    ELSE /\ reqs' = [reqs EXCEPT ![r] = [req EXCEPT !.pc = "waiting", !.op = op]]
         /\ a_calls' = Append(a_calls, ACall(r, op, token))

\* the endpoint answers: main.py, the try/except of every endpoint
Respond(r, req, failed, out) ==
    reqs' = [reqs EXCEPT ![r] =
               [req EXCEPT !.pc = "done", !.failed = failed, !.res = out.res,
                           !.health = IF "health" \in DOMAIN out THEN out.health
                                      ELSE NoHealth,
                           !.body = out.body, !.status = EndpointStatus(out.res)]]

\* a request arrives and its endpoint calls the client method
Begin ==
    \E r \in Reqs, ep \in Endpoints, ct \in ContentTypes :
        /\ reqs[r].pc = "idle"
        /\ LET req == [reqs[r] EXCEPT !.ep = ep, !.had_token = (token # None),
                                      !.content_type = IF ep = ContentEndpoint
                                                       THEN ct ELSE None]
           IN  IF ep = ContentEndpoint /\ ~ValidSide(ct)
               THEN /\ Respond(r, req, "bad_request",
                               [res |-> ErrorOf(HTTPException("400",
                                          "content_type must be 'input' or 'output'")),
                                body |-> NoBody])
                    /\ UNCHANGED a_calls
               ELSE IF ep = ContentEndpoint /\ ~ClientValidSide(ct)
               THEN /\ Respond(r, req, "bad_request",
                               [res |-> ErrorOf(OtherException("ValueError")),
                                body |-> NoBody])
                    /\ UNCHANGED a_calls
               ELSE GetHeaders(r, req, FirstCall(ep))
        /\ UNCHANGED <<token, issued, pvars, hvars, cvars, wvars>>

\* lines 42-77: the token exchange of r is answered
Acquired ==
    \E r \in Reqs, t \in RaceTokens \cup {None} :
        /\ reqs[r].pc = "acquiring"
        /\ IF t # None
           THEN /\ token' = Cached(t)
                /\ issued' = issued \cup {t}
                /\ reqs' = [reqs EXCEPT ![r] =
                              [@ EXCEPT !.pc = "waiting", !.wrote = @ + 1]]
                /\ a_calls' = Append(a_calls, ACall(r, reqs[r].op, token'))
           ELSE /\ Respond(r, reqs[r], "auth_failed",
                           ClientFailure(reqs[r].op, RequestError("auth_failed")))
                /\ token' = TokenAfterFailure(token)
                /\ UNCHANGED <<issued, a_calls>>
        /\ UNCHANGED <<pvars, hvars, cvars, wvars>>

\* the request of r is answered and its handler runs to its next await or
\* to its end
Answered ==
    \E r \in Reqs :
        /\ reqs[r].pc = "waiting"
        /\ \E outcome \in Outcomes(reqs[r].op) :
             LET req == reqs[r]
                 op == req.op
             IN  IF outcome \notin {"ok", "ill_typed"}
                 THEN /\ Respond(r, req, outcome,
                                 ClientFailure(op, RequestError(outcome)))
                      /\ UNCHANGED a_calls
                 ELSE IF NextCall(op) # None
                 THEN GetHeaders(r, [req EXCEPT !.payload = outcome], NextCall(op))
                 ELSE /\ UNCHANGED a_calls
                      /\ CASE op = "flow/about" ->
                                Respond(r, req, None,
                                        [res |-> Returned,
                                         health |-> HealthAvailable("about"),
                                         body |-> HealthCheckResponse(
                                                    HealthAvailable("about"))])
                           [] op = "flow/status" ->
                                \E cs \in ControllerStatuses :
                                    Respond(r,
                                            [req EXCEPT !.payload =
                                               IF cs = NoControllerStatus
                                               THEN "no fields" ELSE "all fields"],
                                            None,
                                            [res |-> Returned, body |-> FlowStatus(cs)])
                           [] op = "flow/process-groups" ->
                                IF req.payload = "ill_typed"
                                THEN Respond(r, req, "ill_typed",
                                             [res |-> ErrorOf(OtherException("ValidationError")),
                                              body |-> NoBody])
                                ELSE Respond(r, req, None,
                                             [res |-> Returned,
                                              body |-> PgDetail(LeafGroup, PgData(LeafGroup),
                                                                topology[LeafGroup])])
                           [] op = "provenance-events" ->
                                \E event_data \in EventPayloads :
                                    IF Unwrap(event_data).ok
                                    THEN Respond(r, [req EXCEPT !.payload = event_data.tag],
                                                 None,
                                                 [res |-> Returned,
                                                  body |-> Validated(Unwrap(event_data))])
                                    ELSE Respond(r, [req EXCEPT !.payload = event_data.tag],
                                                 "no_event",
                                                 ClientFailure(op,
                                                     OtherException("ValidationError")))
                           [] op = "provenance-events/content" ->
                                Respond(r, req, None,
                                        [res |-> Returned, body |-> [data |-> "content"]])
        /\ UNCHANGED <<token, issued, pvars, hvars, cvars, wvars>>

ApiNext == Begin \/ Acquired \/ Answered

-----------------------------------------------------------------------------

-----------------------------------------------------------------------------
(* Concurrent invocations of get_provenance_events on the shared client.
   Every name the method assigns (query_id at lines 412 and 426, poll_num,
   events) is a local of the invocation; the only state the invocations share
   is the client's token.  The steps of an invocation are separated where the
   code awaits an upstream answer; what an answer carries beyond the query id
   and the query status plays no part here and is left out. *)

Invocations == {1, 2}

ConcQueryIds == {"q1", "q2"}

\* the queries upstream has created, oldest first, each with the invocation
\* whose submission created it
Created(id, by) == [id |-> id, by |-> by]

LastCreated ==
    IF q_log = <<>> THEN None ELSE q_log[Len(q_log)].id

TargetLastCreated(own, last) == last

\* lines 485 and 577: the url is built from the local variable query_id
Target(own, last) == own

IdleInvocation ==
    [pc |-> "idle", query_id |-> None, poll_num |-> 0, after |-> None,
     polled |-> {}, deleted |-> {}, outcome |-> None]

ConcIdle ==
    /\ inv = [r \in Invocations |-> IdleInvocation]
    /\ q_log = <<>>

\* leave the inner try with an exception: the handlers at lines 545-554
\* delete first when a query id is known
CRaise(req, q) ==
    IF NeedsCleanup(q)
    THEN [req EXCEPT !.pc = "delete", !.after = "reraise", !.poll_num = 0]
    ELSE [req EXCEPT !.pc = "done", !.outcome = "error", !.poll_num = 0]

\* lines 416-474 of one invocation: the token when none is cached, POST
\* /provenance, and what follows its answer up to the next await
CSubmit(r) ==
    /\ inv[r].pc = "idle"
    /\ UNCHANGED <<pvars, hvars, reqs, a_calls, wvars>>
    /\ \E t \in (IF token = None THEN Tokens \cup {None} ELSE {token}) :
         IF t = None
         THEN /\ inv' = [inv EXCEPT ![r] = CRaise(@, None)]
              /\ UNCHANGED <<token, issued, q_log>>
         ELSE /\ token' = t
              /\ issued' = issued \cup {t}
              /\ \E c \in {None} \cup (ConcQueryIds \ {q_log[i].id : i \in DOMAIN q_log}) :
                 \E answer \in (IF c = None THEN {"failure", "no_id"}
                                ELSE {"failure", "inline", "pending"}) :
                   /\ q_log' = IF c = None THEN q_log ELSE Append(q_log, Created(c, r))
                   /\ inv' = [inv EXCEPT ![r] =
                        CASE answer \in {"failure", "no_id"} -> CRaise(@, None)
                          [] answer = "inline" ->
                               [@ EXCEPT !.query_id = c, !.pc = "delete",
                                         !.after = "return"]
                          [] answer = "pending" ->
                               [@ EXCEPT !.query_id = c, !.pc = "poll"]]

\* lines 480-543 of one invocation: one iteration of the polling loop
CPoll(r) ==
    /\ inv[r].pc = "poll"
    /\ UNCHANGED <<token, pvars, hvars, avars, q_log, wvars>>
    /\ \E answer \in {"failure", "RUNNING", "FINISHED", "FAILED"} :
         LET q == Target(inv[r].query_id, LastCreated)
             sent == [inv[r] EXCEPT !.polled = @ \cup {q},
                                    !.poll_num = @ + 1]
         IN  inv' = [inv EXCEPT ![r] =
               CASE answer = "failure" -> CRaise(sent, sent.query_id)
                 [] IsFinished(answer) ->
                      [sent EXCEPT !.pc = "delete", !.after = "return",
                                   !.poll_num = 0]
                 [] IsFailed(answer) ->
                      [sent EXCEPT !.pc = "delete", !.after = "raise",
                                   !.poll_num = 0]
                 [] answer = "RUNNING" ->
                      IF PollsLeft(sent.poll_num)
                      THEN sent
                      ELSE [sent EXCEPT !.pc = "delete", !.after = "raise",
                                        !.poll_num = 0]]

\* lines 574-585 of one invocation, and what follows the helper's return
\* (lines 469, 528, 537-538, 543, 549, 554)
CDelete(r) ==
    /\ inv[r].pc = "delete"
    /\ UNCHANGED <<token, pvars, hvars, avars, q_log, wvars>>
    /\ LET q == Target(inv[r].query_id, LastCreated)
           sent == [inv[r] EXCEPT !.deleted = @ \cup {q}]
       IN  inv' = [inv EXCEPT ![r] =
             CASE sent.after = "return" ->
                    [sent EXCEPT !.pc = "done", !.outcome = "ok"]
               [] sent.after = "raise" -> CRaise(sent, sent.query_id)
               [] sent.after = "reraise" ->
                    [sent EXCEPT !.pc = "done", !.outcome = "error"]]

ConcNext ==
    \E r \in Invocations : CSubmit(r) \/ CPoll(r) \/ CDelete(r)

-----------------------------------------------------------------------------
(* get_process_group_hierarchy, counted: the walk of HierSpec with the
   built tree left out and the requests counted per depth, so that data with
   several children per group at every level stays within reach.  A fetch
   is answered or fails; the token plays no part here. *)

\* the greatest max_depth tried
FanDepthBound == 3

\* upstream data in which every group lists two groups, one of them its
\* own ancestor
TwinCycleTopology ==
    [g \in GroupIds |->
        CASE g = "root" -> Flow(<<>>, <<>>, <<Entry(Some("a"), Some("A")),
                                              Entry(Some("b"), Some("B"))>>)
          [] g = "a" -> Flow(<<>>, <<>>, <<Entry(Some("root"), Absent),
                                           Entry(Some("b"), Some("B"))>>)
          [] g = "b" -> Flow(<<>>, <<>>, <<Entry(Some("a"), Some("A")),
                                           Entry(Some("root"), Absent)>>)
          [] OTHER -> Flow(<<>>, <<>>, <<>>)]

FanTopologies == {TreeTopology, CycleTopology, TwinCycleTopology}

NoTopology == [g \in GroupIds |-> Flow(<<>>, <<>>, <<>>)]

\* the locals of a call that matter for what it sends
Visit(group_id, depth) ==
    [group_id |-> group_id, depth |-> depth, phase |-> "get_process_group",
     idx |-> 1]

WTop == w_stack[Len(w_stack)]

WIdle ==
    /\ w_pc = "idle"
    /\ w_max_depth = 0
    /\ w_topology = NoTopology
    /\ w_stack = <<>>
    /\ w_calls = [d \in 0..(FanDepthBound + 1) |-> 0]

\* the call on top ends, returning (line 315) or raising (its caller's
\* except, lines 305-313): its caller goes on with the next entry
WLeave ==
    IF Len(w_stack) > 1
    THEN /\ w_stack' = [SubSeq(w_stack, 1, Len(w_stack) - 1)
                          EXCEPT ![Len(w_stack) - 1].idx = @ + 1]
         /\ UNCHANGED w_pc
    ELSE /\ w_stack' = <<>>
         /\ w_pc' = "done"

\* lines 208-210: a walk of the root group from depth 0
WInvoke ==
    /\ w_pc = "idle"
    /\ \E md \in 0..FanDepthBound, topo \in FanTopologies :
         /\ w_max_depth' = md
         /\ w_topology' = topo
         /\ IF DepthExceeded(0, md)
            THEN w_pc' = "done" /\ w_stack' = <<>>
            ELSE w_pc' = "walking" /\ w_stack' = <<Visit("root", 0)>>
    /\ UNCHANGED <<token, pvars, hvars, avars, cvars, w_calls>>

\* lines 215-216
WGetProcessGroup ==
    /\ w_pc = "walking"
    /\ WTop.phase = "get_process_group"
    /\ w_calls' = [w_calls EXCEPT ![WTop.depth] = @ + 1]
    /\ \E outcome \in {"ok", "status_500"} :
         IF outcome = "ok"
         THEN /\ w_stack' = [w_stack EXCEPT ![Len(w_stack)].phase =
                               "get_process_group_flow"]
              /\ UNCHANGED w_pc
         ELSE WLeave
    /\ UNCHANGED <<token, pvars, hvars, avars, cvars, w_max_depth, w_topology>>

\* lines 219-220
WGetProcessGroupFlow ==
    /\ w_pc = "walking"
    /\ WTop.phase = "get_process_group_flow"
    /\ w_calls' = [w_calls EXCEPT ![WTop.depth] = @ + 1]
    /\ \E outcome \in {"ok", "status_500"} :
         IF outcome = "ok"
         THEN /\ w_stack' = [w_stack EXCEPT ![Len(w_stack)].phase = "children"]
              /\ UNCHANGED w_pc
         ELSE WLeave
    /\ UNCHANGED <<token, pvars, hvars, avars, cvars, w_max_depth, w_topology>>

\* lines 295-313: one iteration of the loop over child_groups
WChild ==
    /\ w_pc = "walking"
    /\ WTop.phase = "children"
    /\ WTop.idx <= Len(w_topology[WTop.group_id].processGroups)
    /\ LET child_pg == w_topology[WTop.group_id].processGroups[WTop.idx] IN
         IF child_pg.id = Absent \/ DepthExceeded(WTop.depth + 1, w_max_depth)
         THEN w_stack' = [w_stack EXCEPT ![Len(w_stack)].idx = @ + 1]
         ELSE w_stack' = Append(w_stack, Visit(child_pg.id[1], WTop.depth + 1))
    /\ UNCHANGED <<token, pvars, hvars, avars, cvars, w_pc, w_max_depth, w_topology,
                   w_calls>>

\* line 315
WReturn ==
    /\ w_pc = "walking"
    /\ WTop.phase = "children"
    /\ WTop.idx > Len(w_topology[WTop.group_id].processGroups)
    /\ WLeave
    /\ UNCHANGED <<token, pvars, hvars, avars, cvars, w_max_depth, w_topology, w_calls>>

FanNext ==
    WInvoke \/ WGetProcessGroup \/ WGetProcessGroupFlow \/ WChild \/ WReturn

Init ==
    /\ token \in {None} \cup Tokens
    /\ ProvIdle
    /\ HierIdle
    /\ ApiIdle
    /\ ConcIdle
    /\ WIdle

Spec == Init /\ [][Next]_vars

\* every awaited call ends: the transport has a request timeout
LiveSpec == Spec /\ WF_vars(Next)

HierSpec == Init /\ [][HierNext]_vars

\* every awaited upstream call of the walk ends (the transport has a
\* request timeout), and a step that awaits nothing is taken
HierLiveSpec == HierSpec /\ WF_vars(HierNext)

ApiSpec == Init /\ [][ApiNext]_vars

ConcSpec == Init /\ [][ConcNext]_vars

FanSpec == Init /\ [][FanNext]_vars

-----------------------------------------------------------------------------
(* Properties of get_provenance_events *)

\* DELETE /provenance/{q} requests sent so far
Deletes(q) ==
    Cardinality({ i \in DOMAIN calls : calls[i].op = "DELETE" /\ calls[i].id = q })

\* GET /provenance/{id} requests sent so far
PollsSent == Cardinality({ i \in DOMAIN calls : calls[i].op = "GET" })

\* the submission's answer already carried events
SubmittedInline ==
    /\ submit_resp.kind = "json"
    /\ submit_resp.id # None
    /\ submit_resp.results.provenanceEvents # <<>>

OnSuccessPath == pc = "done" /\ result.kind = "ok"

OnFailedPath ==
    pc = "done" /\ poll_resp.kind = "json" /\ poll_resp.status = "FAILED"

OnTimeoutPath ==
    /\ pc = "done"
    /\ poll_num = max_polls
    /\ poll_resp.kind = "json"
    /\ poll_resp.status \notin {"FINISHED", "FAILED"}

\* the response the client builds from a result set
ResponseFor(results_data) ==
    IF ParseRaises(results_data.provenanceEvents)
    THEN [kind |-> "error", type |-> "NiFiAPIError",
          msg |-> "Failed to get provenance events", detail |-> "AttributeError"]
    ELSE
    ProvenanceEventsResponse(TotalCount(results_data),
                             SortDesc(ParseEvents(results_data.provenanceEvents)),
                             max_results)

ErrorResult(msg, detail) ==
    [kind |-> "error", type |-> "NiFiAPIError", msg |-> msg, detail |-> detail]

\* the outcome upstream's answers to the submission and to the polls call
\* for, whatever became of the cleanup
PrimaryOutcome ==
    IF SubmittedInline THEN ResponseFor(submit_resp.results)
    ELSE CASE poll_resp.kind = "transport_error" ->
                ErrorResult("Failed to get provenance events", "transport")
           [] poll_resp.kind = "bad_json" ->
                ErrorResult("Failed to get provenance events", "json")
           [] poll_resp.kind = "status_500" -> ErrorResult("HTTP error", "500")
           [] poll_resp.kind = "json" /\ poll_resp.status = "FINISHED" ->
                ResponseFor(poll_resp.results)
           [] poll_resp.kind = "json" /\ poll_resp.status = "FAILED" ->
                ErrorResult("Provenance query failed",
                            IF poll_resp.message = None THEN "Query failed"
                            ELSE poll_resp.message)
           [] OTHER -> ErrorResult("Provenance query timed out", "")

\* C1: on each of the three terminal paths (success, status FAILED, poll
\* exhaustion) of an invocation whose submission returned a query id,
\* exactly one DELETE /provenance/{id} has been sent for that id.
C1_ExactlyOneDelete ==
    (query_id # None /\ (OnSuccessPath \/ OnFailedPath \/ OnTimeoutPath))
        => Deletes(query_id) = 1

\* C2: whenever the invocation has ended and its submission had returned a
\* query id, whatever the exit path (success, FAILED, exhaustion, a failed
\* or unparsable poll), a DELETE for that id has been sent, and it is the
\* last request sent before the operation returned or raised.
C2_DeleteBeforeExit ==
    (pc = "done" /\ query_id # None)
        => /\ Deletes(query_id) >= 1
           /\ calls[Len(calls)] = Call("DELETE", query_id, 0)

\* an invocation that ended on an unparsable poll answer, after its cleanup
C2_Witness ==
    /\ pc = "done"
    /\ query_id # None
    /\ poll_resp.kind = "bad_json"
    /\ Deletes(query_id) >= 1

\* C3 as claimed: when the invocation has ended, a DELETE has been sent for
\* every query upstream created for its submission.
C3_NoQueryLeaked ==
    pc = "done" => \A q \in created : Deletes(q) >= 1

\* C3 as amended: when the invocation has ended, every query upstream
\* created for its submission either had a DELETE sent for it, or its id
\* never reached the invocation (the submission's answer carried no id).
C3_NoKnownQueryLeaked ==
    pc = "done" =>
        \A q \in created :
            \/ Deletes(q) >= 1
            \/ /\ query_id = None
               /\ ~(submit_resp.kind = "json" /\ submit_resp.id = q)

\* a query upstream created and announced, cleaned up on an error path
C3_Witness ==
    /\ pc = "done"
    /\ query_id \in created
    /\ result.kind = "error"
    /\ Deletes(query_id) >= 1

\* C4: when a DELETE of the invocation failed, the invocation still ends
\* with the outcome upstream's answers to the submission and the polls call
\* for: the same events response, or the same primary error.
C4_CleanupFailureSwallowed ==
    (pc = "done" /\ delete_failed) => result = PrimaryOutcome

\* an invocation that returned its events although its DELETE failed
C4_Witness ==
    pc = "done" /\ delete_failed /\ result.kind = "ok"

\* C8: when the submission's answer already carries events, the operation
\* returns the result having sent no poll, and has sent the DELETE.
C8_InlineNoPoll ==
    SubmittedInline =>
        /\ PollsSent = 0
        /\ pc # "poll"
        /\ pc = "done" =>
             /\ result = ResponseFor(submit_resp.results)
             /\ Deletes(query_id) >= 1

\* an invocation that returned the inline result
C8_Witness ==
    SubmittedInline /\ pc = "done" /\ result.kind = "ok" /\ Deletes(query_id) >= 1

\* C9: every invocation ends; at most 120 polls are sent; and when none of
\* the 120 reported FINISHED or FAILED, the invocation has sent the DELETE
\* and raised the timeout error, answered as HTTP 502.
C9_BoundedPolling ==
    /\ <>(pc = "done")
    /\ [](PollsSent <= 120)
    /\ [](OnTimeoutPath =>
            /\ PollsSent = 120
            /\ result = ErrorResult("Provenance query timed out", "")
            /\ http_status = 502
            /\ Deletes(query_id) >= 1)

\* an invocation that timed out
C9_Witness ==
    OnTimeoutPath /\ result.msg = "Provenance query timed out" /\ http_status = 502

\* C10: when a poll reported FAILED, the invocation has sent the DELETE and
\* ended with a NiFiAPIError carrying upstream's message and no events,
\* answered as HTTP 502.
C10_FailedQuery ==
    OnFailedPath =>
        /\ result = ErrorResult("Provenance query failed",
                                IF poll_resp.message = None THEN "Query failed"
                                ELSE poll_resp.message)
        /\ http_status = 502
        /\ Deletes(query_id) >= 1

\* a FAILED query whose message reached the caller
C10_Witness ==
    OnFailedPath /\ poll_resp.message = "boom" /\ result.detail = "boom"

\* the instant an eventTime string denotes: the year counts before the
\* month although it is written after it
Instant(event_time) == 12 * event_time[2] + event_time[1]

\* C11: the events of a returned response are in descending order of event
\* time, the most recent first, whatever order upstream delivered them in,
\* on the inline and on the polled path.
C11_MostRecentFirst ==
    OnSuccessPath =>
        \A i \in 1..Len(result.events) : \A j \in 1..Len(result.events) :
            i < j => Instant(result.events[i].event_time)
                       >= Instant(result.events[j].event_time)


\* the result set the returned response was built from
FinalResults ==
    IF SubmittedInline THEN submit_resp.results ELSE poll_resp.results

\* a decimal numeral, with or without grouping commas
IsNumeral(str) ==
    /\ \E i \in 1..Len(str) : str[i] \in Digits
    /\ \A i \in 1..Len(str) : str[i] \in Digits \cup {","}

RECURSIVE NumberOf(_, _)
NumberOf(str, acc) ==
    IF str = <<>> THEN acc
    ELSE IF Head(str) = "," THEN NumberOf(Tail(str), acc)
    ELSE NumberOf(Tail(str), 10 * acc + DigitValue(Head(str)))

\* the total match count upstream reported with a result set, if it
\* reported one
ReportedTotal(results_data) ==
    IF results_data.totalCount # Absent THEN results_data.totalCount
    ELSE IF results_data.total # Absent /\ IsNumeral(results_data.total[1])
    THEN Some(NumberOf(results_data.total[1], 0))
    ELSE Absent

\* C12: totalEvents of a returned response is the total match count
\* upstream reported (totalCount, or else the number written in total), not
\* the number of events returned.
C12_TotalFromUpstream ==
    (OnSuccessPath /\ ReportedTotal(FinalResults) # Absent) =>
        result.totalEvents = ReportedTotal(FinalResults)[1]

\* a response truncated to fewer events than upstream's total
C12_Witness ==
    /\ OnSuccessPath
    /\ FinalResults.totalCount = Some(5)
    /\ Len(result.events) = 1
    /\ Len(FinalResults.provenanceEvents) = 2
    /\ result.totalEvents = 5

\* C13: the maxResults sent in the submission is at most 1000, and a
\* returned response has at most max_results events and at most 1000,
\* whatever integer max_results is and however many events upstream
\* delivered.
C13_ResultBounded ==
    /\ \A i \in 1..Len(calls) :
         calls[i].op = "POST" => calls[i].maxResults <= MaxResultsCap
    /\ OnSuccessPath =>
         /\ Len(result.events) <= max_results
         /\ Len(result.events) <= MaxResultsCap

\* upstream delivered a result set: with the submission's answer, or with
\* a poll that reported FINISHED
ResultsDelivered ==
    \/ SubmittedInline
    \/ (query_id # None /\ poll_resp.kind = "json" /\ poll_resp.status = "FINISHED")

\* C14: a record of the delivered result set that fails validation is
\* dropped and every other record is kept; the operation does not raise and
\* does not discard the response because of a bad record.
C14_BadRecordDropped ==
    (pc = "done" /\ ResultsDelivered) =>
        /\ result.kind = "ok"
        /\ \A i \in 1..Len(FinalResults.provenanceEvents) :
             FinalResults.provenanceEvents[i].ok =>
               \E j \in 1..Len(events) :
                   events[j] = Validated(FinalResults.provenanceEvents[i])

-----------------------------------------------------------------------------
(* Properties of get_process_group_hierarchy *)

FailedAt(F, path) == \E f \in F : f.path = path

RaisedAt(F, path) == (CHOOSE f \in F : f.path = path).exc

\* the tree a walk of group g at depth d owes its caller when exactly the
\* fetches of the calls in F fail: the group's own entity and flow, and one
\* child per entry that has an id, resolved the same way or, when its call
\* raised, replaced by the stand-in
RECURSIVE Subtree(_, _, _, _), Children(_, _, _, _, _)
Subtree(F, g, d, path) ==
    [PgDetail(g, PgData(g), topology[g]) EXCEPT
        !.children = Children(F, topology[g].processGroups, 1, d, path)]

Children(F, entries, i, d, path) ==
    IF i > Len(entries) THEN <<>>
    ELSE LET e == entries[i]
             rest == Children(F, entries, i + 1, d, path)
         IN  IF e.id = Absent THEN rest
             ELSE IF d + 1 > max_depth
             THEN <<StandIn(e.id[1], e.name, MaxDepthError)>> \o rest
             ELSE IF FailedAt(F, Append(path, i))
             THEN <<StandIn(e.id[1], e.name, RaisedAt(F, Append(path, i)))>> \o rest
             ELSE <<Subtree(F, e.id[1], d + 1, Append(path, i))>> \o rest

\* the hierarchy below g fits the depth bound
RECURSIVE Fits(_, _)
Fits(g, d) ==
    \A i \in 1..Len(topology[g].processGroups) :
        LET e == topology[g].processGroups[i] IN
          e.id = Absent \/ (d + 1 <= max_depth /\ Fits(e.id[1], d + 1))

\* the number of entries up to the i-th that have an id
RECURSIVE Position(_, _)
Position(entries, i) ==
    IF i = 0 THEN 0
    ELSE Position(entries, i - 1) + IF entries[i].id = Absent THEN 0 ELSE 1

RootEntries == topology["root"].processGroups

\* a walk was started (the root id, when asked for, was resolved) and is over
WalkDone ==
    /\ h_pc = "done"
    /\ ~DepthExceeded(h_depth, max_depth)
    /\ h_root \in {None, "ok"}

\* the walk is over, the hierarchy fits the depth bound, and the call for
\* exactly one child of the walked group raised
OneChildFailed ==
    /\ WalkDone
    /\ Fits("root", h_depth)
    /\ Cardinality(h_failures) = 1
    /\ \A f \in h_failures : Len(f.path) = 1

\* C5: when the fetch of exactly one child of the walked group throws, the
\* walk returns a tree (it does not raise) in which every sibling subtree is
\* fully resolved and the failing child is a stand-in whose comments are
\* not empty
C5_OneChildIsolated ==
    OneChildFailed =>
      /\ h_result.kind = "ok"
      /\ Len(h_result.node.children) = Position(RootEntries, Len(RootEntries))
      /\ \A j \in 1..Len(RootEntries) :
           RootEntries[j].id # Absent =>
             LET child == h_result.node.children[Position(RootEntries, j)] IN
               IF FailedAt(h_failures, <<j>>)
               THEN /\ child.id = RootEntries[j].id[1]
                    /\ child.comments # Absent
                    /\ child.comments[1] # <<>>
                    /\ child.processors = <<>>
                    /\ child.connections = <<>>
                    /\ child.children = <<>>
               ELSE child = Subtree({}, RootEntries[j].id[1], h_depth + 1, <<j>>)

\* the child that has a child of its own failed, and its two siblings (one
\* of them listed without an id) were walked
C5_Witness ==
    /\ OneChildFailed
    /\ topology = TreeTopology
    /\ FailedAt(h_failures, <<1>>)
    /\ h_result.kind = "ok"
    /\ Len(h_result.node.children) = 2

\* C6: whatever set of non-root groups fail to be fetched, the walk of the
\* root returns a tree: each failing group is a stand-in among its parent's
\* children and every other reached group keeps its own entity, processors,
\* connections and children
C6_FailuresContained ==
    (WalkDone /\ ~FailedAt(h_failures, <<>>)) =>
      /\ h_result.kind = "ok"
      /\ h_result.node = Subtree(h_failures, "root", h_depth, <<>>)

\* two groups failed, at depth 1 and at depth 2, in different subtrees
C6_Witness ==
    /\ WalkDone
    /\ h_result.kind = "ok"
    /\ topology = TreeTopology
    /\ h_depth = 0
    /\ FailedAt(h_failures, <<1, 1>>)
    /\ FailedAt(h_failures, <<3>>)

\* what the walked group's children are when max_depth is 0
RECURSIVE DepthStandIns(_)
DepthStandIns(entries) ==
    IF entries = <<>> THEN <<>>
    ELSE IF Head(entries).id = Absent THEN DepthStandIns(Tail(entries))
    ELSE <<StandIn(Head(entries).id[1], Head(entries).name, MaxDepthError)>>
         \o DepthStandIns(Tail(entries))

\* C7: no entity or flow is fetched for a group at a depth above max_depth;
\* a call entered above max_depth fails with the bounded-recursion error
\* before any fetch; with max_depth = 0 every child of the walked group is
\* the stand-in of that error and the walk itself returns
C7_DepthBounded ==
    /\ \A i \in 1..Len(h_calls) : h_calls[i].depth <= max_depth
    /\ (h_pc = "done" /\ h_depth > max_depth) =>
         /\ h_result = ErrorOf(MaxDepthError)
         /\ h_calls = <<>>
    /\ (h_pc = "done" /\ h_depth = 0 /\ max_depth = 0 /\ h_failures = {}) =>
         /\ h_result.kind = "ok"
         /\ h_result.node.children = DepthStandIns(RootEntries)

\* a walk with max_depth = 0 of a group with children returned
C7_Witness ==
    /\ h_pc = "done"
    /\ h_depth = 0
    /\ max_depth = 0
    /\ h_failures = {}
    /\ h_result.kind = "ok"
    /\ Len(h_result.node.children) = 2
    /\ Len(h_calls) = 2

\* a call entered above max_depth ended
C7_EnteredTooDeep == ~(h_pc = "done" /\ h_depth > max_depth)

\* a child entry put in place of a child whose call raised
IsStandIn(node) ==
    /\ node.comments # Absent
    /\ node.comments[1] # <<>>
    /\ node.comments[1][1] = "Error: "

\* the ids of the entries that have one, in upstream's order
RECURSIVE EntryIds(_)
EntryIds(entries) ==
    IF entries = <<>> THEN <<>>
    ELSE IF Head(entries).id = Absent THEN EntryIds(Tail(entries))
    ELSE <<Head(entries).id[1]>> \o EntryIds(Tail(entries))

ChildIds(node) == [i \in 1..Len(node.children) |-> node.children[i].id]

RECURSIVE InUpstreamOrder(_)
InUpstreamOrder(node) ==
    \/ IsStandIn(node)
    \/ /\ ChildIds(node) = EntryIds(topology[node.id].processGroups)
       /\ \A i \in 1..Len(node.children) : InUpstreamOrder(node.children[i])

\* C15: in a returned tree the children of every resolved node are, in
\* this order, the child groups upstream lists in that node's flow, each
\* either resolved or replaced by its stand-in.
C15_ChildrenInUpstreamOrder ==
    (h_pc = "done" /\ h_result.kind = "ok") => InUpstreamOrder(h_result.node)

\* a tree whose first child is a stand-in and whose second child was resolved
C15_Witness ==
    /\ h_pc = "done"
    /\ h_result.kind = "ok"
    /\ topology = TreeTopology
    /\ ChildIds(h_result.node) = <<"a", "b">>
    /\ IsStandIn(h_result.node.children[1])
    /\ ~IsStandIn(h_result.node.children[2])

\* the requests a call of get_process_group_hierarchy on g at depth d and,
\* one after the other, the calls for its children send when upstream fails
\* exactly the fetches in F: the entity, then the flow, then child by child;
\* a failed fetch ends the call, and a failed token exchange sends nothing
RECURSIVE Trace(_, _, _, _), ChildTraces(_, _, _, _, _)
Trace(F, g, d, path) ==
    LET entity == HCall("get_process_group", g, d, path)
        flow == HCall("get_process_group_flow", g, d, path)
    IN  IF FailedAt(F, path)
        THEN LET f == CHOOSE x \in F : x.path = path
                 failed == IF f.exc.detail = "Failed to authenticate" THEN <<>>
                           ELSE IF f.op = "get_process_group" THEN <<entity>>
                           ELSE <<flow>>
             IN  IF f.op = "get_process_group" THEN failed
                 ELSE <<entity>> \o failed
        ELSE <<entity, flow>>
             \o ChildTraces(F, topology[g].processGroups, 1, d, path)

ChildTraces(F, entries, i, d, path) ==
    IF i > Len(entries) THEN <<>>
    ELSE IF entries[i].id = Absent \/ d + 1 > max_depth
    THEN ChildTraces(F, entries, i + 1, d, path)
    ELSE Trace(F, entries[i].id[1], d + 1, Append(path, i))
         \o ChildTraces(F, entries, i + 1, d, path)

\* the calls of get_process_group_hierarchy that got past the depth guard
Visited ==
    {h_calls[i].path : i \in 1..Len(h_calls)} \cup {f.path : f \in h_failures}

RECURSIVE CallsOf(_, _)
CallsOf(path, trace) ==
    IF trace = <<>> THEN <<>>
    ELSE IF Head(trace).path = path
    THEN <<Head(trace).op>> \o CallsOf(path, Tail(trace))
    ELSE CallsOf(path, Tail(trace))

\* C16 as claimed: the requests of a walk are those of a pre-order
\* depth-first walk, one at a time, and every visited node has exactly two
\* of them: the entity fetch, then the flow fetch.
C16_TwoCallsPerNode ==
    WalkDone =>
        /\ h_calls = Trace(h_failures, "root", h_depth, <<>>)
        /\ \A p \in Visited :
             CallsOf(p, h_calls) = <<"get_process_group", "get_process_group_flow">>

\* C16 as amended: the requests of a walk are those of a pre-order
\* depth-first walk, one at a time: per visited node the entity fetch and,
\* only when that was answered, the flow fetch; every request of a child's
\* subtree before the first request of the next child.
C16_PreOrderWalk ==
    /\ WalkDone => h_calls = Trace(h_failures, "root", h_depth, <<>>)
    /\ \A p \in Visited :
         CallsOf(p, h_calls) \in {<<>>, <<"get_process_group">>,
                                  <<"get_process_group", "get_process_group_flow">>}

\* a walk in which the entity fetch of the first child failed and the
\* second child was walked after it
C16_Witness ==
    /\ WalkDone
    /\ topology = TreeTopology
    /\ h_depth = 0
    /\ \E f \in h_failures : f.path = <<1>> /\ f.op = "get_process_group"
    /\ CallsOf(<<1>>, h_calls) = <<"get_process_group">>
    /\ CallsOf(<<3>>, h_calls) = <<"get_process_group", "get_process_group_flow">>
    /\ Len(h_calls) = 5

-----------------------------------------------------------------------------
(* Properties of the endpoints and of the cached token *)

Done(r) == reqs[r].pc = "done"

\* upstream, or the transport to it, failed a request of r's handler (its
\* token exchange included)
UpstreamFailed(r) == reqs[r].failed \notin {None, "ill_typed", "bad_request"}

\* the handler of r failed on its own: the typed model refused the entity
InternalFailed(r) == reqs[r].failed = "ill_typed"

\* the endpoints whose client method lets a failure out
Raising ==
    {"/api/process-groups/{group_id}", "/api/provenance-events/{event_id}",
     ContentEndpoint}

C18_FlowStatusDefaultOnFailure ==
    \A r \in Reqs :
        (Done(r) /\ reqs[r].ep = "/api/flow/status") =>
            /\ reqs[r].res.kind = "ok"
            /\ reqs[r].body # NoBody
            /\ reqs[r].body \in {FlowStatus(cs) : cs \in ControllerStatuses}
                                \cup {FlowStatusDefault}
            /\ reqs[r].failed # None => reqs[r].body = FlowStatus(NoControllerStatus)
            /\ reqs[r].status = 200

\* flow status asked for twice: once the token exchange failed, once the
\* body was no JSON
C18_Witness ==
    /\ Done(1) /\ reqs[1].ep = "/api/flow/status" /\ reqs[1].failed = "auth_failed"
    /\ Done(2) /\ reqs[2].ep = "/api/flow/status" /\ reqs[2].failed = "bad_json"
    /\ reqs[1].body = FlowStatusDefault
    /\ reqs[2].body = FlowStatusDefault

C20_RaceHarmless ==
    /\ \A r \in Reqs :
         /\ reqs[r].acquired <= 1
         /\ reqs[r].had_token => reqs[r].acquired = 0
         /\ (Done(r) /\ reqs[r].failed = None) =>
              (reqs[r].res.kind = "ok" /\ reqs[r].status = 200)
    /\ \A i \in 1..Len(a_calls) :
         a_calls[i].op # "access/token" =>
           (a_calls[i].token # None /\ a_calls[i].token \in issued)
    /\ token # None => token \in issued

\* both requests exchanged a token, got different ones, and were served
C20_Witness ==
    /\ \A r \in Reqs : Done(r) /\ reqs[r].acquired = 1 /\ reqs[r].failed = None
    /\ Cardinality(issued) = 2
    /\ token \in issued

-----------------------------------------------------------------------------
(* Claims about concurrent provenance invocations (ConcSpec) *)

OwnQueries(r) == { q_log[i].id : i \in { j \in DOMAIN q_log : q_log[j].by = r } }

\* C21: under any interleaving of concurrent get_provenance_events
\* invocations, every poll and every delete of an invocation targets the
\* query id its own submission returned, and a query whose invocation has
\* ended was deleted by that invocation and by no other.
C21_QueryNotShared ==
    \A r \in Invocations :
      /\ \A q \in inv[r].polled \cup inv[r].deleted :
           /\ q \in OwnQueries(r)
           /\ q = inv[r].query_id
      /\ (inv[r].pc = "done" /\ inv[r].query_id # None) =>
           /\ inv[r].query_id \in inv[r].deleted
           /\ \A o \in Invocations \ {r} : inv[r].query_id \notin inv[o].deleted

\* both invocations hold a query at once: the one created first is still
\* being polled while the other is deleting its own
C21_Witness ==
    /\ Len(q_log) = 2
    /\ \E r \in Invocations : \E o \in Invocations \ {r} :
         /\ q_log[1].by = r
         /\ inv[r].pc = "poll" /\ inv[r].polled # {}
         /\ inv[o].pc = "done" /\ inv[o].deleted # {}
         /\ inv[o].query_id # inv[r].query_id

-----------------------------------------------------------------------------
(* Claims about whole-request failures of the hierarchy endpoints (HierSpec) *)

RootFetchFailed ==
    \E f \in h_failures :
      /\ f.path = <<>>
      /\ f.op \in {"get_process_group", "get_process_group_flow"}

\* C22: get_all_process_groups_hierarchy resolves the root id first and
\* walks only after that succeeded; when resolving the root id, the token
\* exchange, or the root group's own metadata or flow fetch fails, the
\* operation returns no tree: it raises, and the endpoint answers with the
\* one error status 502.
C22_RootFailureNotMasked ==
    /\ (h_root \notin {None, "ok"}) =>
         /\ h_calls = <<>>
         /\ h_pc = "done"
         /\ h_result = ErrorOf(RootIdError(h_root))
         /\ EndpointStatus(h_result) = 502
    /\ (h_pc = "done" /\ RootFetchFailed) =>
         /\ h_result = ErrorOf(RaisedAt(h_failures, <<>>))
         /\ EndpointStatus(h_result) = 502

\* the root id was resolved, the root's metadata was fetched, and the
\* root's flow fetch failed
C22_Witness ==
    /\ h_pc = "done"
    /\ h_root = "ok"
    /\ Len(h_calls) = 2
    /\ \E f \in h_failures : f.path = <<>> /\ f.op = "get_process_group_flow"
    /\ h_result.kind = "error"

-----------------------------------------------------------------------------
(* Claims about single endpoints (ApiSpec) *)

CallsBy(r) == { i \in DOMAIN a_calls : a_calls[i].req = r }

\* C23: health_check never raises: when the upstream call or the token
\* exchange fails in any way it returns available = false with the error
\* text, when it succeeds available = true with the upstream data; GET
\* /api/health reports "healthy" exactly when available is true.
C23_HealthNeverRaises ==
    \A r \in Reqs :
        (Done(r) /\ reqs[r].ep = "/api/health") =>
            /\ reqs[r].res = Returned
            /\ reqs[r].status = 200
            /\ reqs[r].failed # None =>
                 /\ ~reqs[r].health.available
                 /\ reqs[r].health.error = RequestError(reqs[r].failed).msg
                 /\ reqs[r].health.error # ""
            /\ reqs[r].failed = None =>
                 /\ reqs[r].health.available
                 /\ reqs[r].health.data = "about"
            /\ reqs[r].body.status \in {"healthy", "unhealthy"}
            /\ reqs[r].body.status = "healthy" <=> reqs[r].health.available
            /\ reqs[r].body.nifi_available = reqs[r].health.available

\* one health request was answered after the token exchange failed, the
\* other after upstream answered
C23_Witness ==
    /\ Done(1) /\ reqs[1].ep = "/api/health" /\ reqs[1].failed = "auth_failed"
    /\ reqs[1].body.status = "unhealthy"
    /\ Done(2) /\ reqs[2].ep = "/api/health" /\ reqs[2].failed = None
    /\ reqs[2].body.status = "healthy"

\* C24: a request to the event-content endpoint with a side other than
\* "input" or "output" is answered with HTTP 400 and causes no upstream call:
\* neither a token exchange nor a content fetch.
C24_BadSideIs400 ==
    \A r \in Reqs :
        (Done(r) /\ reqs[r].ep = ContentEndpoint
                 /\ reqs[r].content_type \notin {"input", "output"}) =>
            /\ reqs[r].status = 400
            /\ CallsBy(r) = {}
            /\ reqs[r].acquired = 0

\* a request with a bad side was answered while no token was cached, and
\* nothing was sent upstream
C24_Witness ==
    /\ Done(1) /\ reqs[1].ep = ContentEndpoint /\ reqs[1].content_type = "sideways"
    /\ reqs[1].status = 400
    /\ token = None
    /\ a_calls = <<>>

\* C28: a counter absent from an upstream payload is 0 in the result: the
\* node built from an entity lacking a counter has that counter 0, and the
\* FlowStatus built from a payload without any field is the all-zero
\* default.
C28_AbsentCounterIsZero ==
    \A r \in Reqs :
        (Done(r) /\ reqs[r].failed = None) =>
            /\ reqs[r].ep = "/api/process-groups/{group_id}" =>
                 /\ PgData(LeafGroup).runningCount = Absent =>
                      reqs[r].body.running_count = 0
                 /\ PgData(LeafGroup).stoppedCount = Absent =>
                      reqs[r].body.stopped_count = 0
            /\ (reqs[r].ep = "/api/flow/status" /\ reqs[r].payload = "no fields") =>
                 /\ reqs[r].body = FlowStatusDefault
                 /\ reqs[r].body.active_thread_count = 0
                 /\ reqs[r].body.bytes_queued = 0

\* a node was built from an entity without counters, and a FlowStatus from
\* a payload without fields
C28_Witness ==
    /\ PgData(LeafGroup).runningCount = Absent
    /\ Done(1) /\ reqs[1].ep = "/api/process-groups/{group_id}" /\ reqs[1].failed = None
    /\ Done(2) /\ reqs[2].ep = "/api/flow/status" /\ reqs[2].failed = None
    /\ reqs[2].payload = "no fields"

EventFetches(r) == { i \in CallsBy(r) : a_calls[i].op = "provenance-events" }

PayloadOf(r) == CHOOSE event_data \in EventPayloads : event_data.tag = reqs[r].payload

\* C29: get_provenance_event_details fetches once and takes the event from
\* under "provenanceEvent" when that key is present, else from under
\* "provenance"."event" when present, else from the payload itself; the
\* same event under either container is parsed to the same result.
C29_UnwrapOrder ==
    \A r \in Reqs :
        (Done(r) /\ reqs[r].ep = "/api/provenance-events/{event_id}") =>
            /\ Cardinality(EventFetches(r)) =
                 IF reqs[r].failed = "auth_failed" THEN 0 ELSE 1
            /\ reqs[r].failed = None =>
                 LET event_data == PayloadOf(r)
                     chosen ==
                       CASE event_data.provenanceEvent # Absent ->
                              event_data.provenanceEvent[1]
                         [] event_data.provenanceEvent = Absent
                            /\ event_data.provenance # Absent
                            /\ event_data.provenance[1].event # Absent ->
                              event_data.provenance[1].event[1]
                         [] OTHER -> event_data.own
                 IN  /\ reqs[r].body.id = chosen.id
                     /\ reqs[r].body.event_time = chosen.eventTime
            /\ (reqs[r].failed = None
                /\ reqs[r].payload \in {"provenanceEvent", "provenance.event", "both"}) =>
                 reqs[r].body = [id |-> "e1", event_time |-> <<1, 2>>]

\* the same event was delivered under one container to one request and
\* under the other to the other request; a third shape carries both keys
C29_Witness ==
    /\ Done(1) /\ reqs[1].payload = "provenanceEvent" /\ reqs[1].failed = None
    /\ Done(2) /\ reqs[2].payload = "provenance.event" /\ reqs[2].failed = None
    /\ reqs[1].ep = "/api/provenance-events/{event_id}"
    /\ reqs[2].ep = "/api/provenance-events/{event_id}"
    /\ reqs[1].body = reqs[2].body

-----------------------------------------------------------------------------
(* Claims about the nodes the walker builds (HierSpec, HierLiveSpec) *)

\* C25: in a returned tree, the child of a resolved node for an entry whose
\* call raised has the id the parent's flow lists, the name the parent's
\* flow gives or else "Error Loading", the error text as comments, no
\* processors, connections or children and counters 0; and every entry with
\* an id has its child, those after a failing one included.
RECURSIVE StandInsAsListed(_, _, _)
StandInsAsListed(node, d, path) ==
    LET entries == topology[node.id].processGroups IN
      /\ Len(node.children) = Position(entries, Len(entries))
      /\ \A i \in 1..Len(entries) :
           entries[i].id # Absent =>
             LET child == node.children[Position(entries, i)]
                 raised == d + 1 > max_depth \/ FailedAt(h_failures, Append(path, i))
                 exc == IF d + 1 > max_depth THEN MaxDepthError
                        ELSE RaisedAt(h_failures, Append(path, i))
             IN  /\ child.id = entries[i].id[1]
                 /\ IF raised
                    THEN /\ child.name = IF entries[i].name = Absent
                                         THEN "Error Loading" ELSE entries[i].name[1]
                         /\ child.comments = Some(<<"Error: ", exc.msg, exc.detail>>)
                         /\ child.processors = <<>>
                         /\ child.connections = <<>>
                         /\ child.children = <<>>
                         /\ child.running_count = 0
                         /\ child.stopped_count = 0
                    ELSE StandInsAsListed(child, d + 1, Append(path, i))

C25_StandInShape ==
    (WalkDone /\ h_result.kind = "ok") => StandInsAsListed(h_result.node, h_depth, <<>>)

\* the first child failed and carries the name its entry gave, the next
\* child was walked after it, failed too, and carries the sentinel
C25_Witness ==
    /\ WalkDone
    /\ h_result.kind = "ok"
    /\ topology = TreeTopology
    /\ FailedAt(h_failures, <<1>>) /\ FailedAt(h_failures, <<3>>)
    /\ Len(h_result.node.children) = 2
    /\ h_result.node.children[1].name = "A"
    /\ h_result.node.children[2].name = "Error Loading"
    /\ h_result.node.children[2].id = "b"

WellFormed(items) ==
    LET accepted == SelectSeq(items, LAMBDA x : x.ok)
    IN  [i \in 1..Len(accepted) |-> [id |-> accepted[i].id]]

\* C27: a malformed processor or connection entry is skipped and never
\* aborts the node: when the walked group's entity and flow were both
\* delivered, the walk returns its node with exactly the well-formed
\* entries in upstream order and with a child for every listed child group.
C27_BadEntrySkipped ==
    (WalkDone /\ ~RootFetchFailed) =>
        /\ h_result.kind = "ok"
        /\ h_result.node.processors = WellFormed(topology["root"].processors)
        /\ h_result.node.connections = WellFormed(topology["root"].connections)
        /\ Len(h_result.node.children) = Len(EntryIds(RootEntries))

RECURSIVE WithinDepth(_, _)
WithinDepth(node, d) ==
    /\ d <= max_depth + 1
    /\ d = max_depth + 1 => (IsStandIn(node) /\ node.children = <<>>)
    /\ \A i \in 1..Len(node.children) : WithinDepth(node.children[i], d + 1)

RECURSIVE Height(_)
Height(node) ==
    IF node.children = <<>> THEN 1
    ELSE 1 + Height(node.children[1])

\* C30: get_process_group_hierarchy terminates for any upstream data, a
\* group listing its own ancestor as child included: every started walk
\* ends, and a returned tree has resolved nodes at the depths up to
\* max_depth only and nothing but childless stand-ins one level below.
C30_TerminatesWithinDepth ==
    /\ (h_pc = "walking") ~> (h_pc = "done")
    /\ [](WalkDone /\ h_result.kind = "ok" => WithinDepth(h_result.node, h_depth))

\* a walk of the cyclic data from depth 0 with the default bound ended with
\* a tree as deep as the bound allows
C30_Witness ==
    /\ WalkDone
    /\ h_result.kind = "ok"
    /\ topology = CycleTopology
    /\ max_depth = DefaultMaxDepth
    /\ h_depth = 0
    /\ Height(h_result.node) = DefaultMaxDepth + 2

-----------------------------------------------------------------------------
(* Claims about the two result paths of get_provenance_events (Spec) *)

-----------------------------------------------------------------------------
(* Claims about the number of requests of a walk (FanSpec) *)

\* the greatest number of child groups one group of the data lists
FanOut(topo) ==
    LET listed(g) == Cardinality({ i \in DOMAIN topo[g].processGroups :
                                     topo[g].processGroups[i].id # Absent })
    IN  CHOOSE n \in 0..Cardinality(GroupIds) + 1 :
          /\ \E g \in GroupIds : listed(g) = n
          /\ \A g \in GroupIds : listed(g) <= n

RECURSIVE SumTo(_, _)
SumTo(f, d) == IF d < 0 THEN 0 ELSE f[d] + SumTo(f, d - 1)

RECURSIVE Pow(_, _)
Pow(b, e) == IF e = 0 THEN 1 ELSE b * Pow(b, e - 1)

TotalCalls == SumTo(w_calls, FanDepthBound + 1)

\* C31 as claimed: the requests of one walk number at most two per group
\* for at most fan-out groups per level below the walked group, that is at
\* most 2 * (1 + max_depth * fan-out): linear in max_depth.
C31_LinearCalls ==
    TotalCalls <= 2 * (1 + w_max_depth * FanOut(w_topology))

\* C31 as amended: no request is sent for a group deeper than max_depth,
\* and at depth d at most two requests for each of at most fan-out^d
\* groups.
C31_GeometricCalls ==
    \A d \in DOMAIN w_calls :
        /\ d > w_max_depth => w_calls[d] = 0
        /\ w_calls[d] <= 2 * Pow(FanOut(w_topology), d)

\* a walk of cyclic data with two children per group and max_depth 2 sent
\* 2 + 4 + 8 requests: the geometric bound is attained, the linear one
\* (10) exceeded
C31_Witness ==
    /\ w_pc = "done"
    /\ w_topology = TwinCycleTopology
    /\ w_max_depth = 2
    /\ w_calls[2] = 8
    /\ TotalCalls = 14

-----------------------------------------------------------------------------
(* The order of the calls of get_provenance_events *)

\* the positions in the list of requests sent that hold a request of kind op
Positions(op) == { i \in DOMAIN calls : calls[i].op = op }

\* C32: the requests of one invocation are sent in the order submission,
\* polls, cleanup: the first request is the POST and it is the only one,
\* every GET and DELETE is sent after the submission was answered and names
\* the id that answer carried, no GET follows a DELETE, and an invocation
\* that created a query has ended only with a DELETE as its last request.
C32_LifecycleOrder ==
    /\ calls # <<>> => Positions("POST") = {1}
    /\ \A i \in Positions("GET") \cup Positions("DELETE") :
           /\ submit_resp.kind = "json"
           /\ submit_resp.id # None
           /\ calls[i].id = submit_resp.id
    /\ \A i \in Positions("DELETE") : \A j \in Positions("GET") : j < i
    /\ (pc = "done" /\ query_id # None) => calls[Len(calls)].op = "DELETE"

\* an invocation that polled twice, saw the second poll fail and raised
\* after its cleanup
C32_Witness ==
    /\ pc = "done"
    /\ result.kind = "error"
    /\ Len(calls) >= 4
    /\ calls[2].op = "GET"
    /\ calls[3].op = "GET"
    /\ poll_resp.kind = "status_500"
    /\ calls[Len(calls)].op = "DELETE"

\* the submission gave no query id: the request failed, was answered with
\* an error status or an unreadable body, carried no id, or was never sent
\* because no token could be had
NoQueryId ==
    \/ submit_resp.kind # "json"
    \/ submit_resp.id = None

\* C33: an invocation whose submission gave no query id has sent no GET and
\* no DELETE when it ends, and ends by raising NiFiAPIError; no DELETE is
\* ever sent without a query id.
C33_NoIdNoPollNoDelete ==
    /\ (pc = "done" /\ NoQueryId) =>
           /\ Positions("GET") = {}
           /\ Positions("DELETE") = {}
           /\ result.kind = "error"
           /\ result.type = "NiFiAPIError"
    /\ \A i \in Positions("DELETE") : calls[i].id # None

\* the submission was answered without an id and the invocation ended
C33_Witness ==
    /\ pc = "done"
    /\ submit_resp.kind = "json"
    /\ submit_resp.id = None
    /\ Len(calls) = 1
    /\ result.msg = "Failed to get query ID from provenance request"

\* C34: an invocation returns without a poll only if the submission's
\* answer carried a non-empty list of events, and one whose submission
\* carried an id and no events has returned only after at least one poll,
\* the last of which reported FINISHED.
C34_InlineOnlyWithEvents ==
    /\ (OnSuccessPath /\ PollsSent = 0) => SubmittedInline
    /\ (OnSuccessPath /\ ~SubmittedInline) =>
           /\ PollsSent >= 1
           /\ poll_resp.kind = "json"
           /\ poll_resp.status = "FINISHED"
    /\ (pc \in {"delete", "deleted"} /\ after_delete = "return"
          /\ PollsSent = 0) => SubmittedInline

\* upstream answered the submission FINISHED with no events; the invocation
\* polled and returned the empty result of the poll
C34_Witness ==
    /\ OnSuccessPath
    /\ submit_resp.status = "FINISHED"
    /\ submit_resp.results.provenanceEvents = <<>>
    /\ PollsSent = 1
    /\ result.events = <<>>
    /\ result.totalEvents = 0

\* the last poll's answer ends the polling
Terminal(resp) ==
    \/ resp.kind \in {"transport_error", "status_500", "bad_json"}
    \/ resp.kind = "json" /\ resp.status \in {"FINISHED", "FAILED"}

\* C35: once a poll was answered FINISHED or FAILED, or failed, no further
\* GET is sent; after any other answer, a missing status included, the next
\* poll is due as long as fewer than max_polls were sent.
C35_StopsAtTerminal ==
    /\ [][Terminal(poll_resp) => Positions("GET")' = Positions("GET")]_vars
    /\ [](poll_resp.kind = "json" /\ ~Terminal(poll_resp)
            => IF poll_num < max_polls THEN pc = "poll" ELSE pc # "poll")

\* a poll answered without a status was followed by a poll answered FAILED,
\* and the invocation ended after two polls
C35_Witness ==
    /\ pc = "done"
    /\ poll_resp.kind = "json"
    /\ poll_resp.status = "FAILED"
    /\ PollsSent = 2

-----------------------------------------------------------------------------
(* A failed token exchange (ApiSpec) *)

\* the token exchange of r fails in this step
AuthFails(r) ==
    reqs[r].pc = "acquiring" /\ reqs'[r].failed = "auth_failed"

\* C36: a failed token exchange leaves the client's token as it was and
\* ends the operation with NiFiAPIError (health_check and get_flow_status
\* with their degraded results); the token is assigned only by a token
\* exchange that succeeded, to the token it was given; and an operation that
\* starts while no token is cached, whatever failed before, exchanges one
\* before it sends anything else.
C36_FailureNotCached ==
    /\ [][\A r \in Reqs : AuthFails(r) => token' = token]_vars
    /\ [][token' # token =>
            /\ token' # None
            /\ token' \in issued'
            /\ \E r \in Reqs : /\ reqs[r].pc = "acquiring"
                               /\ reqs'[r].wrote = reqs[r].wrote + 1
                               /\ reqs'[r].failed = None]_vars
    /\ [](\A r \in Reqs :
            (Done(r) /\ reqs[r].failed = "auth_failed") =>
                CASE reqs[r].ep = "/api/health" ->
                       /\ reqs[r].res = Returned
                       /\ ~reqs[r].health.available
                  [] reqs[r].ep = "/api/flow/status" ->
                       /\ reqs[r].res = Returned
                       /\ reqs[r].body = FlowStatusDefault
                  [] OTHER ->
                       /\ reqs[r].res.kind = "error"
                       /\ reqs[r].res.type = "NiFiAPIError"
                       /\ CallsBy(r) = { i \in DOMAIN a_calls :
                                           /\ a_calls[i].req = r
                                           /\ a_calls[i].op = "access/token" })
    /\ [](\A r \in Reqs :
            (reqs[r].pc # "idle" /\ ~reqs[r].had_token
                /\ reqs[r].failed # "bad_request") =>
                /\ reqs[r].acquired = 1
                /\ a_calls[CHOOSE i \in CallsBy(r) :
                               \A j \in CallsBy(r) : i <= j].op = "access/token")

\* the token exchange of the first operation failed and the operation
\* raised; no token was cached, the second operation exchanged one and was
\* served
C36_Witness ==
    /\ Done(1) /\ reqs[1].failed = "auth_failed" /\ reqs[1].ep \in Raising
    /\ reqs[1].res.type = "NiFiAPIError"
    /\ Done(2) /\ reqs[2].acquired = 1 /\ reqs[2].wrote = 1
    /\ reqs[2].failed = None
    /\ a_calls[1].req = 1
    /\ Len(a_calls) >= 3
    /\ a_calls[2].req = 2 /\ a_calls[2].op = "access/token"
    /\ issued = {token}

-----------------------------------------------------------------------------
(* Which events a truncated response keeps (Spec) *)

\* the valid records of the result set the response was built from
ValidDelivered == ParseEvents(FinalResults.provenanceEvents)

ReturnedIds == { result.events[i].id : i \in DOMAIN result.events }

\* C37: a returned response holds the max_results most recent of the valid
\* events upstream delivered: as many as max_results allows, and none of
\* them older than a valid event that was left out.
C37_MostRecentKept ==
    (OnSuccessPath /\ max_results >= 0) =>
        /\ Len(result.events) = Min(max_results, Len(ValidDelivered))
        /\ \A i \in DOMAIN result.events : \A j \in DOMAIN ValidDelivered :
               ValidDelivered[j].id \notin ReturnedIds =>
                   Instant(result.events[i].event_time)
                     >= Instant(ValidDelivered[j].event_time)

-----------------------------------------------------------------------------
(* The total of a response when upstream reports none (Spec) *)

\* C38: when the result set carries neither totalCount nor a total that
\* reads as a number, totalEvents of the returned response is the number of
\* records upstream delivered, the invalid ones and those cut off by
\* max_results included, and so at least the number of events returned.
C38_FallbackCountsDelivered ==
    (OnSuccessPath /\ ReportedTotal(FinalResults) = Absent) =>
        /\ result.totalEvents = Len(FinalResults.provenanceEvents)
        /\ result.totalEvents >= Len(result.events)

\* upstream wrote a total that is no number and delivered one record, which
\* failed validation: the response has no events and a total of one
C38_Witness ==
    /\ OnSuccessPath
    /\ FinalResults.totalCount = Absent
    /\ FinalResults.total = Some(<<"x">>)
    /\ Len(FinalResults.provenanceEvents) = 1
    /\ result.events = <<>>
    /\ result.totalEvents = 1

====
